---- MODULE Spec2Model ----
(***************************************************************************)
(* Model of Jolt's MeshShape (Physics/Collision/Shape/MeshShape.cpp): the  *)
(* settings sanitizer, the shape constructor, the sub-shape id scheme and  *)
(* the tree walker with its query visitors.                                *)
(***************************************************************************)
EXTENDS Integers, Sequences, FiniteSets, TLC

(***************************************************************************)
(* Program constants (MeshShape.h, SubShapeID.h, CollisionCollector.h).    *)
(***************************************************************************)
\* SubShapeID::MaxBits: width of SubShapeID::Type (uint32)
MaxBits == 32
\* MeshShape::NumTriangleBits
NumTriangleBits == 2
\* MeshShape::MaxTrianglesPerLeaf = 1 << NumTriangleBits
MaxTrianglesPerLeaf == 4
\* MeshShape::FLAGS_MATERIAL_BITS
FLAGS_MATERIAL_BITS == 5
\* MeshShape::FLAGS_MATERIAL_MASK = (1 << FLAGS_MATERIAL_BITS) - 1
FLAGS_MATERIAL_MASK == 31
\* MeshShape::FLAGS_ACTIVE_EGDE_SHIFT = FLAGS_MATERIAL_BITS
FLAGS_ACTIVE_EGDE_SHIFT == 5
\* MeshShape::FLAGS_ACTIVE_EDGE_MASK = (1 << FLAGS_ACTIVE_EDGE_BITS) - 1
FLAGS_ACTIVE_EDGE_MASK == 7

VARIABLES
    \* --- sub-shape id codec (SubShapeIDCreator / SubShapeID) ---
    idPc,           \* position in the encode / decode sequence
    mTriangleBlockIDBits, \* Visitor::mTriangleBlockIDBits
    inTriangleBlockID,    \* block id handed to VisitTriangles
    hit_triangle_idx,         \* index of the triangle in the block
    idCreator,      \* the SubShapeIDCreator being built
    mSubShapeID2,   \* the id stored in the hit
    outBlockID,     \* DecodeSubShapeID: block_id
    outTriangleIndex, \* DecodeSubShapeID: outTriangleIndex
    remainder,      \* DecodeSubShapeID: remainder
    \* --- MeshShapeSettings ---
    setPc,              \* "new" before, "constructed" after the constructor
    inTriangles,        \* the triangle list handed to the constructor
    sTriangleVertices,  \* MeshShapeSettings::mTriangleVertices (their number)
    sIndexedTriangles,  \* MeshShapeSettings::mIndexedTriangles
    sMaterials,         \* MeshShapeSettings::mMaterials (their number)
    mCachedResult,      \* ShapeSettings::mCachedResult
    \* --- MeshShape under construction ---
    buildPc,            \* position in MeshShape::MeshShape
    mMaterials,         \* MeshShape::mMaterials (their number)
    indexed_triangles,  \* the constructor's copy of the triangles, with flags
    mTree,              \* MeshShape::mTree
    ran,                \* the stages of the constructor that have run
    assertFailed,       \* a JPH_ASSERT of FindActiveEdges has failed
    \* --- a query walking the tree ---
    walkPc,             \* "idle", "walking", "walked" (WalkTree has ended), "returned"
    query,              \* the query that runs: which visitor walks the tree
    ray,                \* what the ray of the query does to the boxes and triangles
    mNodeStack,         \* DecodingContext::mNodeStack, its entries in use
    context,            \* MSGetTrianglesContext, but for its mDecodeCtx
    outTriangleVertices,\* what the current call wrote to outTriangleVertices
    outMaterials,       \* what the current call wrote to outMaterials
    result,             \* the value the last call returned
    emitted,            \* the triangles written by all calls so far, in order
    resumedAt,          \* the node on top of the stack when the current call
                        \* started after a call that aborted, else NoNode
    doneCalls,          \* calls made after the walk was done
    mCollector,         \* the CastRayCollector handed to CastRay
    mBackFaceMode,      \* Visitor::mBackFaceMode
    ioCollector,        \* the hits added to the collector handed to CollidePoint
    contains,           \* bounds.Contains(inPoint) in CollidePoint
    mTop,               \* DecodingContext::mTop
    mDistanceStack,     \* Visitor::mDistanceStack[0 .. mTop]
    mHit,               \* CastRay: ioHit (mFraction, mSubShapeID2)
    mReturnValue,       \* CastRay: Visitor::mReturnValue
    inHit,              \* the caller's hit when CastRay was entered
    visited,            \* the node properties WalkTree has processed, in order
    savePc,             \* where the save and restore of a shape stands
    mUserData,          \* Shape::mUserData of the shape that is saved
    inStream,           \* the stream SaveBinaryState wrote, as a sequence of values
    savedMaterials,     \* the list SaveMaterialState handed out
    restored,           \* the fresh shape that is restored
    threads,            \* the queries running on the shape at the same time, each with what its caller owns
    started,            \* each query as it was when its caller started it
    lastStack,          \* the node stack the last round of any WalkTree left
    ctorRuns,           \* how many times Create has constructed a MeshShape
    returned,           \* the results the calls of Create returned, in order
    inScale,            \* inScale of GetTrianglesStart
    enumeration,        \* the enumeration started with inScale, with what its caller owns
    inSharp,            \* the edges of two triangles for which ActiveEdges::IsEdgeActive holds
    edgeOrder           \* the order in which the edge map was iterated

setVars == <<setPc, inTriangles, sTriangleVertices, sIndexedTriangles, sMaterials,
             mCachedResult>>

buildVars == <<buildPc, mMaterials, indexed_triangles, mTree, ran, assertFailed>>

triVars == <<context, outTriangleVertices, outMaterials, result, emitted, resumedAt,
            doneCalls>>

colVars == <<mCollector, mBackFaceMode, ioCollector, contains>>

walkVars == <<triVars, colVars, walkPc, query, ray, mNodeStack, mTop, mDistanceStack, mHit, mReturnValue,
              inHit, visited>>

idVars == <<idPc, mTriangleBlockIDBits, inTriangleBlockID, hit_triangle_idx,
            idCreator, mSubShapeID2, outBlockID, outTriangleIndex, remainder>>

saveVars == <<savePc, mUserData, inStream, savedMaterials, restored>>

parVars == <<threads, started, lastStack>>

createVars == <<ctorRuns, returned>>

scaleVars == <<inScale, enumeration>>

edgeVars == <<inSharp, edgeOrder>>

vars == <<idVars, setVars, buildVars, walkVars, saveVars, parVars, createVars, scaleVars, edgeVars>>

(***************************************************************************)
(* Arithmetic helpers.                                                     *)
(***************************************************************************)
RECURSIVE Pow2Of(_)
Pow2Of(n) == IF n = 0 THEN 1 ELSE 2 * Pow2Of(n - 1)

\* the powers of two that fit a signed 32 bit integer
Pow2Table == [n \in 0 .. 30 |-> Pow2Of(n)]

Pow2(n) == Pow2Table[n]

\* bit i of a non-negative integer below 2^31
BitOf(v, i) == IF i >= 31 THEN 0 ELSE (v \div Pow2(i)) % 2

BitIndices == 0 .. (MaxBits - 1)

\* the integer with bit i equal to bit[from + i], for i < n (n <= 30)
RECURSIVE BitsToInt(_, _, _)
BitsToInt(bit, from, n) ==
    IF n = 0 THEN 0 ELSE BitsToInt(bit, from, n - 1) + bit[from + n - 1] * Pow2(n - 1)

(***************************************************************************)
(* SubShapeID: a 32 bit value, held as its high and low 16 bit halves.     *)
(***************************************************************************)
HalfBits == MaxBits \div 2

\* the value with the given bits (a function on BitIndices)
Pack(bit) == <<BitsToInt(bit, HalfBits, HalfBits), BitsToInt(bit, 0, HalfBits)>>

\* bit i of a value
IdBit(id, i) == IF i < HalfBits THEN BitOf(id[2], i) ELSE BitOf(id[1], i - HalfBits)

\* SubShapeID::cEmpty = ~Type(0)
cEmpty == Pack([i \in BitIndices |-> 1])

\* SubShapeID::IsEmpty
IsEmpty(id) == id = cEmpty

\* SubShapeID::PushID(inValue, inFirstBit, inBits):
\*   mValue &= ~(((1 << inBits) - 1) << inFirstBit); mValue |= inValue << inFirstBit
SubShapeID_PushID(id, inValue, inFirstBit, inBits) ==
    Pack([i \in BitIndices |->
            LET cleared == IF i >= inFirstBit /\ i < inFirstBit + inBits
                           THEN 0 ELSE IdBit(id, i)
                shifted == IF i >= inFirstBit THEN BitOf(inValue, i - inFirstBit) ELSE 0
            IN  IF cleared = 1 \/ shifted = 1 THEN 1 ELSE 0])

\* SubShapeID::PopID(inBits, outRemainder):
\*   fill_bits = cEmpty << (MaxBits - inBits); v = mValue & mask_bits;
\*   outRemainder = (mValue >> inBits) | fill_bits
PopID(id, inBits) ==
    [value |-> BitsToInt([i \in BitIndices |-> IdBit(id, i)], 0, inBits),
     remainder |-> Pack([i \in BitIndices |->
                           IF i + inBits >= MaxBits THEN 1 ELSE IdBit(id, i + inBits)])]

\* SubShapeIDCreator(): empty id, current bit 0
EmptyCreator == [mID |-> cEmpty, mCurrentBit |-> 0]

\* SubShapeIDCreator::PushID(inValue, inBits): a copy with the value pushed
PushID(creator, inValue, inBits) ==
    [mID |-> SubShapeID_PushID(creator.mID, inValue, creator.mCurrentBit, inBits),
     mCurrentBit |-> creator.mCurrentBit + inBits]

\* CastRay Visitor::VisitTriangles (line 569): the id of a triangle,
\*   mSubShapeIDCreator.PushID(inTriangleBlockID, mTriangleBlockIDBits)
\*                     .PushID(hit_triangle_idx, NumTriangleBits).GetID()
TriangleSubShapeID(creator, blockID, blockBits, triIdx) ==
    PushID(PushID(creator, blockID, blockBits), triIdx, NumTriangleBits).mID

\* DecodeSubShapeID popping the two fields in the order they were pushed last
\* to first (triangle index before block id)
DecodeSubShapeID_TriangleFirst(id, blockBits) ==
    LET first  == PopID(id, NumTriangleBits)
        second == PopID(first.remainder, blockBits)
    IN  [block_id |-> second.value,
         outTriangleIndex |-> first.value,
         remainder |-> second.remainder]

\* MeshShape::DecodeSubShapeID: pop the block id, then the triangle index
DecodeSubShapeID(id, blockBits) ==
    LET first  == PopID(id, blockBits)
        second == PopID(first.remainder, NumTriangleBits)
    IN  [block_id |-> first.value,
         outTriangleIndex |-> second.value,
         remainder |-> second.remainder]

(***************************************************************************)
(* Specification SpecID: one triangle's id is built by a query and decoded *)
(* again, for every block-id width a built shape can have.                 *)
(***************************************************************************)
\* widths of the block id for which the bit budget of a built shape holds
BlockIDWidths == 0 .. (MaxBits - NumTriangleBits)

\* block ids tried for a width: the smallest, the largest and two between
BlockIDs(bits) ==
    {b \in {0, 1, Pow2(bits) \div 2, Pow2(bits) - 1} : b < Pow2(bits)}

TriangleIndices == 0 .. (MaxTrianglesPerLeaf - 1)

\* Result<Ref<Shape>>: empty, an error with its message, or the shape
EmptyResult == [kind |-> "empty", text |-> "", args |-> <<>>]
ErrorResult(text, args) == [kind |-> "error", text |-> text, args |-> args]
ShapeResult == [kind |-> "shape", text |-> "", args |-> <<>>]

\* node properties: tri_count = 0 for an inner node, whose offset is its index
\* in the node list; otherwise a block of tri_count triangles with block id offset
NodeProperties(tri_count, offset) == [tri_count |-> tri_count, offset |-> offset]

\* the tree of a default constructed shape: an empty buffer
EmptyTree ==
    [nodes |-> <<>>, leaves |-> <<>>, root |-> NodeProperties(0, 0), blockIDBits |-> 0]

\* the settings object is not part of this specification
SetIdle ==
    /\ setPc = "off"
    /\ inTriangles = <<>>
    /\ sTriangleVertices = 0
    /\ sIndexedTriangles = <<>>
    /\ sMaterials = 0
    /\ mCachedResult = EmptyResult

\* no shape is under construction in this specification
BuildIdle ==
    /\ buildPc = "off"
    /\ mMaterials = 0
    /\ indexed_triangles = <<>>
    /\ mTree = EmptyTree
    /\ ran = {}
    /\ assertFailed = FALSE

\* fractions and distances are points of a grid; FLT_MAX lies above them all
FLT_MAX == 99
\* 1 + FLT_EPSILON on the grid: fractions below it lie on the ray
cInitialEarlyOutFraction == 2

\* RayCastResult: a fraction and the sub-shape id of the triangle hit
RayCastResult(fraction, id) == [mFraction |-> fraction, mSubShapeID2 |-> id]

\* what a ray does to a tree: RayTriangle's fraction for every triangle (by
\* number), whether the triangle faces away from the ray, and RayAABox4's
\* distance for the box of every block and of every inner node
NoRay == [fraction |-> <<>>, back |-> <<>>, leafDistance |-> <<>>, nodeDistance |-> <<>>]

\* MSGetTrianglesContext before GetTrianglesStart
NoContext ==
    [mLocalBox |-> [leaf |-> <<>>, node |-> <<>>], mIsInsideOut |-> FALSE,
     mMaxTrianglesRequested |-> 0, mNumTrianglesFound |-> 0, mMaterials |-> FALSE,
     mShouldAbort |-> FALSE]

NoNode == NodeProperties(0, 0)

\* no triangles are fetched
GetTrianglesIdle ==
    /\ context = NoContext
    /\ outTriangleVertices = <<>>
    /\ outMaterials = <<>>
    /\ result = 0
    /\ emitted = <<>>
    /\ resumedAt = NoNode
    /\ doneCalls = 0

\* CollisionCollector: its early out fraction and the hits added to it;
\* a HitCountCollector also has a count and the id of its last hit.  Kept
\* with it are the triangles RayTriangle was called for, each with whether
\* ShouldEarlyOut held at the call, and the number of calls of AddHit made
\* while ShouldEarlyOut held
Collector(kind) ==
    [kind |-> kind, mEarlyOutFraction |-> cInitialEarlyOutFraction, hits |-> <<>>,
     mHitCount |-> 0, mSubShapeID |-> cEmpty, tested |-> <<>>, late |-> 0]

\* no collector is in use
CollectorIdle ==
    /\ mCollector = Collector("none")
    /\ mBackFaceMode = "none"
    /\ ioCollector = <<>>
    /\ contains = FALSE

\* no query runs in this specification
WalkIdle ==
    /\ GetTrianglesIdle
    /\ CollectorIdle
    /\ walkPc = "off"
    /\ query = "none"
    /\ ray = NoRay
    /\ mNodeStack = <<>>
    /\ mTop = -1
    /\ mDistanceStack = <<>>
    /\ mHit = RayCastResult(0, <<0, 0>>)
    /\ mReturnValue = FALSE
    /\ inHit = RayCastResult(0, <<0, 0>>)
    /\ visited = <<>>

\* a shape as RestoreBinaryState finds it: Shape's user data, no tree and
\* no materials; materialsRestored records a call of RestoreMaterialState
FreshShape ==
    [mTree |-> EmptyTree, mMaterials |-> <<>>, mUserData |-> 0, materialsRestored |-> FALSE]

\* no list handed out by SaveMaterialState yet
NoList == [saved |-> FALSE, list |-> <<>>]

\* FindActiveEdges is not looked at on its own
EdgeIdle ==
    /\ inSharp = {}
    /\ edgeOrder = <<>>

\* no enumeration under a scale
ScaleIdle ==
    /\ inScale = <<1, 1, 1>>
    /\ enumeration = [pc |-> "idle"]

\* Create is not looked at
CreateIdle ==
    /\ ctorRuns = 0
    /\ returned = <<>>

\* no queries run side by side
ParIdle ==
    /\ threads = <<>>
    /\ started = <<>>
    /\ lastStack = [nodes |-> <<>>, top |-> -1]

SaveIdle ==
    /\ savePc = "off"
    /\ mUserData = 0
    /\ inStream = <<>>
    /\ savedMaterials = NoList
    /\ restored = FreshShape

IdInit ==
    /\ SetIdle
    /\ EdgeIdle
    /\ ScaleIdle
    /\ CreateIdle
    /\ ParIdle
    /\ SaveIdle
    /\ BuildIdle
    /\ WalkIdle
    /\ idPc = "query"
    /\ mTriangleBlockIDBits \in BlockIDWidths
    /\ inTriangleBlockID \in BlockIDs(mTriangleBlockIDBits)
    /\ hit_triangle_idx \in TriangleIndices
    /\ idCreator = EmptyCreator
    /\ mSubShapeID2 = cEmpty
    /\ outBlockID = 0
    /\ outTriangleIndex = 0
    /\ remainder = cEmpty

\* the query stores the id of the triangle it hit
StoreHitID ==
    /\ idPc = "query"
    /\ mSubShapeID2' = TriangleSubShapeID(idCreator, inTriangleBlockID,
                                          mTriangleBlockIDBits, hit_triangle_idx)
    /\ idPc' = "hit"
    /\ UNCHANGED <<mTriangleBlockIDBits, inTriangleBlockID, hit_triangle_idx,
                   idCreator, outBlockID, outTriangleIndex, remainder>>
    /\ UNCHANGED <<setVars, buildVars, walkVars, edgeVars, scaleVars, createVars, parVars, saveVars>>

\* GetMaterial / GetSurfaceNormal decode the id of the hit
DecodeHitID ==
    /\ idPc = "hit"
    /\ LET d == DecodeSubShapeID(mSubShapeID2, mTriangleBlockIDBits)
       IN  /\ outBlockID' = d.block_id
           /\ outTriangleIndex' = d.outTriangleIndex
           /\ remainder' = d.remainder
    /\ idPc' = "decoded"
    /\ UNCHANGED <<mTriangleBlockIDBits, inTriangleBlockID, hit_triangle_idx,
                   idCreator, mSubShapeID2>>
    /\ UNCHANGED <<setVars, buildVars, walkVars, edgeVars, scaleVars, createVars, parVars, saveVars>>

IdNext == StoreHitID \/ DecodeHitID

SpecID == IdInit /\ [][IdNext]_vars

\* C4: the id a query builds for a triangle from an empty creator decodes to
\* the same block id and triangle index with an empty remainder, and no
\* other triangle of the shape gets the same id.
C4_RoundTrip ==
    /\ idPc = "decoded" =>
          /\ outBlockID = inTriangleBlockID
          /\ outTriangleIndex = hit_triangle_idx
          /\ IsEmpty(remainder)
    /\ idPc \in {"hit", "decoded"} =>
          \A b \in BlockIDs(mTriangleBlockIDBits), t \in TriangleIndices :
              TriangleSubShapeID(EmptyCreator, b, mTriangleBlockIDBits, t) = mSubShapeID2
                  => (b = inTriangleBlockID /\ t = hit_triangle_idx)

\* a decoded id of the widest block id, for a block and a triangle other than 0
C4_Witness ==
    /\ idPc = "decoded"
    /\ mTriangleBlockIDBits = MaxBits - NumTriangleBits
    /\ inTriangleBlockID > 1
    /\ hit_triangle_idx = MaxTrianglesPerLeaf - 1

(***************************************************************************)
(* MeshShapeSettings: indexed triangles and the sanitizer.                 *)
(***************************************************************************)
\* number of triangles in the list handed to the settings constructor
MaxInputTriangles == 3
\* the vertex indices the input triangles use: the three vertices of one triangle
VertexIndices == {0, 1, 2}

\* IndexedTriangle(i0, i1, i2, material)
Range(q) == {q[i] : i \in 1 .. Len(q)}

IndexedTriangle(i0, i1, i2, m) == [mIdx |-> <<i0, i1, i2>>, mMaterialIndex |-> m]

\* IndexedTriangleNoMaterial::IsDegenerate: two of the three indices are equal
IsDegenerate(tri) ==
    \/ tri.mIdx[1] = tri.mIdx[2]
    \/ tri.mIdx[2] = tri.mIdx[3]
    \/ tri.mIdx[3] = tri.mIdx[1]

\* IndexedTriangle::GetLowestIndexFirst: rotate the lowest index to the front,
\* keeping the winding
GetLowestIndexFirst(tri) ==
    LET a == tri.mIdx[1]
        b == tri.mIdx[2]
        c == tri.mIdx[3]
        m == tri.mMaterialIndex
    IN  IF a < b
        THEN IF a < c THEN IndexedTriangle(a, b, c, m) ELSE IndexedTriangle(c, a, b, m)
        ELSE IF b < c THEN IndexedTriangle(b, c, a, m) ELSE IndexedTriangle(c, a, b, m)

\* what operator == and the hash of IndexedTriangle compare: the index triple
TriangleKey(tri) == tri.mIdx

\* vector::erase(begin() + t), t counted from 1
Erase(list, t) == SubSeq(list, 1, t - 1) \o SubSeq(list, t + 1, Len(list))

\* the sanitizer loop without the degenerate test
RECURSIVE SanitizeLoop_KeepDegenerate(_, _, _)
SanitizeLoop_KeepDegenerate(list, triangles, t) ==
    IF t < 1 THEN list
    ELSE LET key == TriangleKey(GetLowestIndexFirst(list[t]))
         IN  IF key \in triangles
             THEN SanitizeLoop_KeepDegenerate(Erase(list, t), triangles, t - 1)
             ELSE SanitizeLoop_KeepDegenerate(list, triangles \cup {key}, t - 1)

\* the sanitizer loop comparing triangles by their set of vertices
RECURSIVE SanitizeLoop_AnyWinding(_, _, _)
SanitizeLoop_AnyWinding(list, triangles, t) ==
    IF t < 1 THEN list
    ELSE LET tri == list[t]
             key == Range(tri.mIdx)
         IN  IF IsDegenerate(tri) \/ key \in triangles
             THEN SanitizeLoop_AnyWinding(Erase(list, t), triangles, t - 1)
             ELSE SanitizeLoop_AnyWinding(list, triangles \cup {key}, t - 1)

\* MeshShapeSettings::Sanitize, the loop from index t down to the first
\* triangle; triangles is the unordered_set of the triples seen so far
RECURSIVE SanitizeLoop(_, _, _)
SanitizeLoop(list, triangles, t) ==
    IF t < 1 THEN list
    ELSE LET tri == list[t]
             key == TriangleKey(GetLowestIndexFirst(tri))
         IN  IF IsDegenerate(tri)
             THEN SanitizeLoop(Erase(list, t), triangles, t - 1)
             ELSE IF key \in triangles
                  THEN SanitizeLoop(Erase(list, t), triangles, t - 1)
                  ELSE SanitizeLoop(list, triangles \cup {key}, t - 1)

\* the sanitizer with the loop running from the first triangle to the last
Sanitize_Forward(list) ==
    LET Backwards(l) == [i \in 1 .. Len(l) |-> l[Len(l) + 1 - i]]
    IN  Backwards(SanitizeLoop(Backwards(list), {}, Len(list)))

\* MeshShapeSettings::Sanitize
Sanitize(list) == SanitizeLoop(list, {}, Len(list))

InputTriangles ==
    {IndexedTriangle(a, b, c, 0) : a \in VertexIndices, b \in VertexIndices, c \in VertexIndices}

SeqsUpTo(S, n) == UNION {[1 .. k -> S] : k \in 0 .. n}

InputTriangleLists(n) == SeqsUpTo(InputTriangles, n)

(***************************************************************************)
(* Specification SpecSettings: a settings object is constructed from an    *)
(* indexed triangle list.                                                  *)
(***************************************************************************)
IdIdle ==
    /\ idPc = "off"
    /\ mTriangleBlockIDBits = 0
    /\ inTriangleBlockID = 0
    /\ hit_triangle_idx = 0
    /\ idCreator = EmptyCreator
    /\ mSubShapeID2 = cEmpty
    /\ outBlockID = 0
    /\ outTriangleIndex = 0
    /\ remainder = cEmpty

SetInit ==
    /\ IdIdle
    /\ EdgeIdle
    /\ ScaleIdle
    /\ CreateIdle
    /\ ParIdle
    /\ SaveIdle
    /\ BuildIdle
    /\ WalkIdle
    /\ mCachedResult = EmptyResult
    /\ setPc = "new"
    /\ inTriangles = <<>>
    /\ sTriangleVertices = 0
    /\ sIndexedTriangles = <<>>
    /\ sMaterials = 0

\* MeshShapeSettings::MeshShapeSettings(inVertices, inTriangles, inMaterials)
MeshShapeSettingsCtor ==
    /\ setPc = "new"
    /\ \E list \in InputTriangleLists(MaxInputTriangles) :
          /\ inTriangles' = list
          /\ sIndexedTriangles' = Sanitize(list)
    /\ sTriangleVertices' = Cardinality(VertexIndices)
    /\ sMaterials' = 0
    /\ setPc' = "constructed"
    /\ UNCHANGED <<mCachedResult, idVars, edgeVars, scaleVars, createVars, parVars, saveVars, buildVars, walkVars>>

SetNext == MeshShapeSettingsCtor

SpecSettings == SetInit /\ [][SetNext]_vars

\* the lowest-index-first triples of the triangles of a list
CanonicalTriples(list) == {TriangleKey(GetLowestIndexFirst(tri)) : tri \in Range(list)}

\* C5: after construction the list holds no degenerate triangle, no two
\* triangles with the same lowest-index-first triple, and exactly one triangle
\* for each such triple of the non-degenerate input triangles.
C5_Sanitized ==
    setPc = "constructed" =>
        /\ \A i \in 1 .. Len(sIndexedTriangles) : ~IsDegenerate(sIndexedTriangles[i])
        /\ \A i, j \in 1 .. Len(sIndexedTriangles) :
              TriangleKey(GetLowestIndexFirst(sIndexedTriangles[i]))
                  = TriangleKey(GetLowestIndexFirst(sIndexedTriangles[j])) => i = j
        /\ CanonicalTriples(sIndexedTriangles)
              = CanonicalTriples(SelectSeq(inTriangles, LAMBDA tri : ~IsDegenerate(tri)))
        /\ Len(sIndexedTriangles)
              = Cardinality(CanonicalTriples(SelectSeq(inTriangles, LAMBDA tri : ~IsDegenerate(tri))))

\* the input [T, T, degenerate] of the specification's scenario: one triangle left
C5_Witness ==
    /\ setPc = "constructed"
    /\ Len(inTriangles) = 3
    /\ inTriangles[1] = inTriangles[2]
    /\ ~IsDegenerate(inTriangles[1])
    /\ IsDegenerate(inTriangles[3])
    /\ Len(sIndexedTriangles) = 1

(***************************************************************************)
(* MeshShape::MeshShape: validation, active edges, tree build, bit budget. *)
(***************************************************************************)
\* number of triangles in the settings handed to the shape constructor
MaxBuildTriangles == 2

\* the triangle check without the test of the vertex indices
RECURSIVE CheckTriangles_NoIndexTest(_, _, _)
CheckTriangles_NoIndexTest(list, numVertices, t) ==
    IF t < 0 THEN EmptyResult
    ELSE IF IsDegenerate(list[t + 1])
         THEN ErrorResult("Triangle %d is degenerate!", <<t>>)
         ELSE CheckTriangles_NoIndexTest(list, numVertices, t - 1)

\* lines 116-134: the triangle check, from index t (counted from 0) down to 0;
\* EmptyResult when no triangle is rejected
RECURSIVE CheckTriangles(_, _, _)
CheckTriangles(list, numVertices, t) ==
    IF t < 0 THEN EmptyResult
    ELSE LET triangle == list[t + 1]
             bad == {i \in 1 .. 3 : triangle.mIdx[i] >= numVertices}
         IN  IF IsDegenerate(triangle)
             THEN ErrorResult("Triangle %d is degenerate!", <<t>>)
             ELSE IF bad # {}
                  THEN LET i == CHOOSE k \in bad : \A j \in bad : k <= j
                       IN  ErrorResult("Vertex index %u is beyond vertex list (size: %u)",
                                       <<triangle.mIdx[i], numVertices>>)
                  ELSE CheckTriangles(list, numVertices, t - 1)

\* lines 146-151 and 156-161: the first triangle of the list, from position t
\* on, whose material index is at least limit; 0 if there is none
RECURSIVE FirstMaterialFrom(_, _, _)
FirstMaterialFrom(list, limit, t) ==
    IF t > Len(list) THEN 0
    ELSE IF list[t].mMaterialIndex >= limit THEN t
         ELSE FirstMaterialFrom(list, limit, t + 1)

\* lines 138-162: the material check; EmptyResult when nothing is rejected
CheckMaterials(list, numMaterials) ==
    IF numMaterials # 0
    THEN IF numMaterials > FLAGS_MATERIAL_MASK
         THEN ErrorResult("Supporting max %d materials per mesh", <<FLAGS_ACTIVE_EDGE_MASK + 1>>)
         ELSE LET t == FirstMaterialFrom(list, numMaterials, 1)
              IN  IF t # 0
                  THEN ErrorResult("Triangle material %u is beyond material list (size: %u)",
                                   <<list[t].mMaterialIndex, numMaterials>>)
                  ELSE EmptyResult
    ELSE IF FirstMaterialFrom(list, 1, 1) # 0
         THEN ErrorResult("No materials present, all triangles should have material index 0", <<>>)
         ELSE EmptyResult

\* FindActiveEdges, struct Edge: the two indices in ascending order
Edge(inIdx1, inIdx2) ==
    <<IF inIdx1 < inIdx2 THEN inIdx1 ELSE inIdx2, IF inIdx1 < inIdx2 THEN inIdx2 ELSE inIdx1>>

\* the edge at position edge_idx (0, 1, 2) of a triangle
TriangleEdge(triangle, edge_idx) ==
    Edge(triangle.mIdx[edge_idx + 1], triangle.mIdx[((edge_idx + 1) % 3) + 1])

\* Edge::GetIndexInTriangle: the first position at which the triangle has the edge
GetIndexInTriangle(edge, inTriangle) ==
    CHOOSE edge_idx \in 0 .. 2 :
        /\ TriangleEdge(inTriangle, edge_idx) = edge
        /\ \A k \in 0 .. 2 : TriangleEdge(inTriangle, k) = edge => edge_idx <= k

\* lines 236-244: edge_to_triangle[edge], the triangles (counted from 1) that hold
\* the edge, one entry for each position at which they hold it, in list order
RECURSIVE EdgeToTriangle(_, _, _)
EdgeToTriangle(ioIndices, edge, triangle_idx) ==
    IF triangle_idx > Len(ioIndices) THEN <<>>
    ELSE LET n == Cardinality({k \in 0 .. 2 : TriangleEdge(ioIndices[triangle_idx], k) = edge})
         IN  [i \in 1 .. n |-> triangle_idx] \o EdgeToTriangle(ioIndices, edge, triangle_idx + 1)

\* the keys of edge_to_triangle
EdgesOf(ioIndices) ==
    {TriangleEdge(ioIndices[t], k) : t \in 1 .. Len(ioIndices), k \in 0 .. 2}

\* the test of an edge taking an edge of three or more triangles as inactive
IsActive_UpToTwo(incident, edge, sharp) ==
    IF Len(incident) = 1 THEN TRUE
    ELSE IF Len(incident) = 2 THEN edge \in sharp
    ELSE FALSE

\* lines 249-284: whether an edge is active; sharp is the set of edges for which
\* ActiveEdges::IsEdgeActive holds of the two triangles at the edge
IsActive(incident, edge, sharp) ==
    IF Len(incident) = 1 THEN TRUE
    ELSE IF Len(incident) = 2 THEN edge \in sharp
    ELSE TRUE

\* the marking of an edge with the shift one bit short, into the material bits
RECURSIVE MarkEdge_ShortShift(_, _, _, _)
MarkEdge_ShortShift(state, edge, incident, i) ==
    IF i > Len(incident) THEN state
    ELSE LET triangle_idx == incident[i]
             triangle == state.tris[triangle_idx]
             edge_idx == GetIndexInTriangle(edge, triangle)
             bit  == edge_idx + FLAGS_ACTIVE_EGDE_SHIFT - 1
             isSet == BitOf(triangle.mMaterialIndex, bit) = 1
             marked == [triangle EXCEPT !.mMaterialIndex =
                           IF isSet THEN @ ELSE @ + Pow2(bit)]
         IN  MarkEdge_ShortShift([tris |-> [state.tris EXCEPT ![triangle_idx] = marked],
                                  failed |-> state.failed \/ isSet],
                                 edge, incident, i + 1)

\* lines 289-296: mark the edge in every triangle of the list incident (from
\* position i on); flags is the list of triangles, failed the assertion's state
RECURSIVE MarkEdge(_, _, _, _)
MarkEdge(state, edge, incident, i) ==
    IF i > Len(incident) THEN state
    ELSE LET triangle_idx == incident[i]
             triangle == state.tris[triangle_idx]
             edge_idx == GetIndexInTriangle(edge, triangle)
             bit  == edge_idx + FLAGS_ACTIVE_EGDE_SHIFT
             isSet == BitOf(triangle.mMaterialIndex, bit) = 1
             marked == [triangle EXCEPT !.mMaterialIndex =
                           IF isSet THEN @ ELSE @ + Pow2(bit)]
         IN  MarkEdge([tris |-> [state.tris EXCEPT ![triangle_idx] = marked],
                       failed |-> state.failed \/ isSet],
                      edge, incident, i + 1)

\* lines 247-298: the walk over the edges of the map, in the order given
RECURSIVE WalkEdges(_, _, _, _, _)
WalkEdges(state, ioIndices, order, sharp, i) ==
    IF i > Len(order) THEN state
    ELSE LET edge == order[i]
             incident == EdgeToTriangle(ioIndices, edge, 1)
         IN  WalkEdges(IF IsActive(incident, edge, sharp)
                       THEN MarkEdge(state, edge, incident, 1)
                       ELSE state,
                       ioIndices, order, sharp, i + 1)

\* MeshShape::FindActiveEdges
FindActiveEdges(ioIndices, order, sharp) ==
    WalkEdges([tris |-> ioIndices, failed |-> FALSE], ioIndices, order, sharp, 1)

\* the orders in which the edge map may be iterated: ascending and descending
RECURSIVE Ascending(_)
Ascending(S) ==
    IF S = {} THEN <<>>
    ELSE LET e == CHOOSE x \in S : \A y \in S :
                      x[1] < y[1] \/ (x[1] = y[1] /\ x[2] <= y[2])
         IN  <<e>> \o Ascending(S \ {e})

Reverse(q) == [i \in 1 .. Len(q) |-> q[Len(q) + 1 - i]]

EdgeOrders(S) == {Ascending(S), Reverse(Ascending(S))}

\* AABBTreeBuilder::Build and AABBTreeToBuffer::Convert for a mesh of at most
\* MaxTrianglesPerLeaf triangles: the root is the one block of triangles
SingleLeafTree(tris, blockIDBits) ==
    [nodes |-> <<>>, leaves |-> <<tris>>,
     root |-> NodeProperties(Len(tris), 0), blockIDBits |-> blockIDBits]

\* NodeCodec::DecodingContext::sTriangleBlockIDBits
sTriangleBlockIDBits(tree) == tree.blockIDBits

\* the bit count that omits the bits of the triangle index
GetSubShapeIDBitsRecursive_BlockOnly(tree) == sTriangleBlockIDBits(tree)

\* MeshShape::GetSubShapeIDBitsRecursive
GetSubShapeIDBitsRecursive(tree) == sTriangleBlockIDBits(tree) + NumTriangleBits

(***************************************************************************)
(* Specification SpecBuild: Create() runs the shape constructor on         *)
(* settings whose members were filled in directly (they are public and     *)
(* serializable, lines 43-50), so they need not be sanitized.              *)
(***************************************************************************)
BuildTriangles ==
    {IndexedTriangle(a, b, c, m) :
        a \in VertexIndices, b \in VertexIndices, c \in VertexIndices, m \in {0, 1}}

\* sizes of the material table: none, few, and around the limit of the flags
MaterialCounts ==
    {0, 1, 2, FLAGS_MATERIAL_MASK, FLAGS_MATERIAL_MASK + 1, FLAGS_MATERIAL_MASK + 2}

\* sizes of the vertex list: with and without the index 2 in range
VertexCounts == {Cardinality(VertexIndices) - 1, Cardinality(VertexIndices)}

\* widths of the block id of an encoded tree: the width follows the size of
\* the encoded buffer, which stands for meshes larger than the triangles held
BuiltBlockIDWidths == {0, MaxBits - NumTriangleBits, MaxBits - NumTriangleBits + 1}

Stages == {"materials", "FindActiveEdges", "Build", "Convert", "swap"}

BuildInit ==
    /\ IdIdle
    /\ EdgeIdle
    /\ ScaleIdle
    /\ CreateIdle
    /\ ParIdle
    /\ SaveIdle
    /\ WalkIdle
    /\ setPc = "constructed"
    /\ inTriangles = <<>>
    /\ sTriangleVertices \in VertexCounts
    /\ sIndexedTriangles \in SeqsUpTo(BuildTriangles, MaxBuildTriangles)
    /\ sMaterials \in MaterialCounts
    /\ mCachedResult = EmptyResult
    /\ buildPc = "idle"
    /\ mMaterials = 0
    /\ indexed_triangles = <<>>
    /\ mTree = EmptyTree
    /\ ran = {}
    /\ assertFailed = FALSE

\* MeshShapeSettings::Create, lines 100-101: no cached result, construct a shape
Create ==
    /\ buildPc = "idle"
    /\ mCachedResult = EmptyResult
    /\ buildPc' = "check_empty"
    /\ UNCHANGED <<mMaterials, indexed_triangles, mTree, ran, assertFailed>>
    /\ UNCHANGED <<setVars, idVars, edgeVars, scaleVars, createVars, parVars, saveVars, walkVars>>

\* MeshShape::MeshShape, lines 109-113
CtorCheckEmpty ==
    /\ buildPc = "check_empty"
    /\ IF Len(sIndexedTriangles) = 0
       THEN /\ mCachedResult' = ErrorResult("Need triangles to create a mesh shape!", <<>>)
            /\ buildPc' = "done"
       ELSE /\ buildPc' = "check_triangles"
            /\ UNCHANGED mCachedResult
    /\ UNCHANGED <<setPc, inTriangles, sTriangleVertices, sIndexedTriangles, sMaterials>>
    /\ UNCHANGED <<mMaterials, indexed_triangles, mTree, ran, assertFailed>>
    /\ UNCHANGED <<idVars, edgeVars, scaleVars, createVars, parVars, saveVars, walkVars>>

\* MeshShape::MeshShape, lines 116-134
CtorCheckTriangles ==
    /\ buildPc = "check_triangles"
    /\ LET r == CheckTriangles(sIndexedTriangles, sTriangleVertices,
                               Len(sIndexedTriangles) - 1)
       IN  /\ mCachedResult' = r
           /\ buildPc' = IF r = EmptyResult THEN "materials" ELSE "done"
    /\ UNCHANGED <<setPc, inTriangles, sTriangleVertices, sIndexedTriangles, sMaterials>>
    /\ UNCHANGED <<mMaterials, indexed_triangles, mTree, ran, assertFailed>>
    /\ UNCHANGED <<idVars, edgeVars, scaleVars, createVars, parVars, saveVars, walkVars>>

\* MeshShape::MeshShape, lines 137-162
CtorMaterials ==
    /\ buildPc = "materials"
    /\ mMaterials' = sMaterials
    /\ ran' = ran \cup {"materials"}
    /\ LET r == CheckMaterials(sIndexedTriangles, sMaterials)
       IN  /\ mCachedResult' = r
           /\ buildPc' = IF r = EmptyResult THEN "active_edges" ELSE "done"
    /\ UNCHANGED <<setPc, inTriangles, sTriangleVertices, sIndexedTriangles, sMaterials>>
    /\ UNCHANGED <<indexed_triangles, mTree, assertFailed>>
    /\ UNCHANGED <<idVars, edgeVars, scaleVars, createVars, parVars, saveVars, walkVars>>

\* the edges with exactly two incident triangles
SharedEdges(ioIndices) ==
    {e \in EdgesOf(ioIndices) : Len(EdgeToTriangle(ioIndices, e, 1)) = 2}

\* MeshShape::MeshShape, lines 165-166
CtorFindActiveEdges ==
    /\ buildPc = "active_edges"
    /\ \E sharp \in SUBSET SharedEdges(sIndexedTriangles),
          order \in EdgeOrders(EdgesOf(sIndexedTriangles)) :
          LET r == FindActiveEdges(sIndexedTriangles, order, sharp)
          IN  /\ indexed_triangles' = r.tris
              /\ assertFailed' = r.failed
    /\ ran' = ran \cup {"FindActiveEdges"}
    /\ buildPc' = "build"
    /\ UNCHANGED <<setVars, mMaterials, mTree, idVars, edgeVars, scaleVars, createVars, parVars, saveVars, walkVars>>

\* MeshShape::MeshShape, lines 169-191: the tree is built and converted to a
\* buffer; the conversion fails with the codec's error, or the buffer becomes mTree
CtorBuildTree ==
    /\ buildPc = "build"
    /\ \/ /\ mCachedResult' = ErrorResult("<error of AABBTreeToBuffer::Convert>", <<>>)
          /\ ran' = ran \cup {"Build", "Convert"}
          /\ buildPc' = "done"
          /\ UNCHANGED mTree
       \/ /\ \E bits \in BuiltBlockIDWidths :
                mTree' = SingleLeafTree(indexed_triangles, bits)
          /\ ran' = ran \cup {"Build", "Convert", "swap"}
          /\ buildPc' = "check_bits"
          /\ UNCHANGED mCachedResult
    /\ UNCHANGED <<setPc, inTriangles, sTriangleVertices, sIndexedTriangles, sMaterials>>
    /\ UNCHANGED <<mMaterials, indexed_triangles, assertFailed>>
    /\ UNCHANGED <<idVars, edgeVars, scaleVars, createVars, parVars, saveVars, walkVars>>

\* MeshShape::MeshShape, lines 194-200
CtorCheckBits ==
    /\ buildPc = "check_bits"
    /\ mCachedResult' =
          IF GetSubShapeIDBitsRecursive(mTree) > MaxBits
          THEN ErrorResult("Mesh is too big and exceeds the amount of available sub shape ID bits", <<>>)
          ELSE ShapeResult
    /\ buildPc' = "done"
    /\ UNCHANGED <<setPc, inTriangles, sTriangleVertices, sIndexedTriangles, sMaterials>>
    /\ UNCHANGED <<mMaterials, indexed_triangles, mTree, ran, assertFailed>>
    /\ UNCHANGED <<idVars, edgeVars, scaleVars, createVars, parVars, saveVars, walkVars>>

BuildNext ==
    \/ Create
    \/ CtorCheckEmpty
    \/ CtorCheckTriangles
    \/ CtorMaterials
    \/ CtorFindActiveEdges
    \/ CtorBuildTree
    \/ CtorCheckBits

SpecBuild == BuildInit /\ [][BuildNext]_vars

\* the conditions on the settings that claim C6 lists
SettingsRejected ==
    \/ Len(sIndexedTriangles) = 0
    \/ \E t \in 1 .. Len(sIndexedTriangles) :
          \/ IsDegenerate(sIndexedTriangles[t])
          \/ \E i \in 1 .. 3 : sIndexedTriangles[t].mIdx[i] >= sTriangleVertices
          \/ sMaterials # 0 /\ sIndexedTriangles[t].mMaterialIndex >= sMaterials
          \/ sMaterials = 0 /\ sIndexedTriangles[t].mMaterialIndex # 0

\* C6: settings with an empty triangle list, a degenerate triangle, a vertex
\* index out of range, a material index out of range or a non-zero material
\* index without materials end construction with an error, never a shape, and
\* neither the active edge analysis nor the tree build nor the assignment of
\* the tree buffer happens.
C6_InvalidSettingsRejected ==
    SettingsRejected =>
        /\ mCachedResult.kind # "shape"
        /\ buildPc = "done" => mCachedResult.kind = "error"
        /\ ran \cap {"FindActiveEdges", "Build", "Convert", "swap"} = {}
        /\ mTree = EmptyTree
        /\ buildPc \notin {"active_edges", "build", "check_bits"}

\* construction has ended on a vertex index out of range in a list whose
\* triangles are not degenerate
C6_Witness ==
    /\ buildPc = "done"
    /\ mCachedResult.kind = "error"
    /\ Len(sIndexedTriangles) = MaxBuildTriangles
    /\ \A t \in 1 .. Len(sIndexedTriangles) : ~IsDegenerate(sIndexedTriangles[t])
    /\ \E t \in 1 .. Len(sIndexedTriangles), i \in 1 .. 3 :
          sIndexedTriangles[t].mIdx[i] >= sTriangleVertices

TooManyMaterialsText == "Supporting max %d materials per mesh"

\* C7: when the material check is reached, construction fails with the
\* too-many-materials error if there are more than FLAGS_MATERIAL_MASK + 1
\* materials, and a table of at most FLAGS_MATERIAL_MASK + 1 materials is not
\* rejected for its size.
C7_MaterialLimit ==
    (buildPc = "done" /\ "materials" \in ran) =>
        /\ sMaterials > FLAGS_MATERIAL_MASK + 1 =>
              (mCachedResult.kind = "error" /\ mCachedResult.text = TooManyMaterialsText)
        /\ sMaterials <= FLAGS_MATERIAL_MASK + 1 =>
              ~(mCachedResult.kind = "error" /\ mCachedResult.text = TooManyMaterialsText)

TooBigText == "Mesh is too big and exceeds the amount of available sub shape ID bits"

\* C8: a built shape has blockIdBits + NumTriangleBits <= MaxBits, and a tree
\* that needs more bits ends construction with the mesh-too-large error.
C8_BitBudget ==
    /\ mCachedResult.kind = "shape" =>
          sTriangleBlockIDBits(mTree) + NumTriangleBits <= MaxBits
    /\ (buildPc = "done" /\ "swap" \in ran
            /\ sTriangleBlockIDBits(mTree) + NumTriangleBits > MaxBits) =>
          (mCachedResult.kind = "error" /\ mCachedResult.text = TooBigText)

\* construction has ended on a tree whose ids need one bit too many
C8_Witness ==
    /\ buildPc = "done"
    /\ "swap" \in ran
    /\ sTriangleBlockIDBits(mTree) + NumTriangleBits = MaxBits + 1
    /\ mCachedResult.text = TooBigText

(***************************************************************************)
(* Trees: the encoded buffer as the walker sees it.  An inner node is the  *)
(* list of the node properties of its children (at most four); a block is  *)
(* the list of its triangles, here their numbers 1 .. N in block order.    *)
(* Blocks come last and are numbered depth first.  A block holds 1 to      *)
(* MaxTrianglesPerLeaf triangles: the splitter is supplied by the caller   *)
(* and a tree may also be read from a stream (RestoreBinaryState).         *)
(***************************************************************************)
\* number of blocks of a tree
MaxLeaves == 2
\* number of triangles of a tree that a ray is cast against
MaxTriangles == 3
\* NodeCodecQuadTreeHalfFloat: children per node
NumChildrenPerNode == 4

RECURSIVE SumSeq(_, _)
SumSeq(q, n) == IF n = 0 THEN 0 ELSE SumSeq(q, n - 1) + q[n]

\* the sizes of the blocks of a tree with at most maxLeaves blocks and
\* maxTriangles triangles
LeafSizeLists(maxLeaves, maxTriangles) ==
    {q \in SeqsUpTo(1 .. MaxTrianglesPerLeaf, maxLeaves) :
        Len(q) >= 1 /\ SumSeq(q, Len(q)) <= maxTriangles}

\* the ways to hang k blocks under the root: a group of one block is a child
\* of the root, a larger group is an inner node under the root
Groupings(k) ==
    IF k = 1 THEN {<<1>>}
    ELSE {g \in SeqsUpTo(1 .. NumChildrenPerNode, NumChildrenPerNode) :
             Len(g) >= 2 /\ SumSeq(g, Len(g)) = k}

\* sTriangleBlockIDBits for k blocks: the bits of the largest block id, k - 1
RECURSIVE BitsFor(_)
BitsFor(v) == IF v = 0 THEN 0 ELSE 1 + BitsFor(v \div 2)

TreeOf(sizes, groups) ==
    LET k == Len(sizes)
        LeafProps(b) == NodeProperties(sizes[b + 1], b)
        FirstLeaf(j) == SumSeq(groups, j - 1)
        InnerIndex(j) == 1 + Cardinality({i \in 1 .. j : groups[i] >= 2})
        inner == {j \in 1 .. Len(groups) : groups[j] >= 2}
        GroupOf(n) == CHOOSE j \in inner : InnerIndex(j) = n
        leaves == [b \in 1 .. k |-> [i \in 1 .. sizes[b] |-> SumSeq(sizes, b - 1) + i]]
    IN  IF k = 1
        THEN [nodes |-> <<>>, leaves |-> leaves, root |-> LeafProps(0), blockIDBits |-> 0]
        ELSE [nodes |-> [n \in 1 .. (1 + Cardinality(inner)) |->
                           IF n = 1
                           THEN [j \in 1 .. Len(groups) |->
                                   IF groups[j] = 1 THEN LeafProps(FirstLeaf(j))
                                   ELSE NodeProperties(0, InnerIndex(j))]
                           ELSE [i \in 1 .. groups[GroupOf(n)] |->
                                   LeafProps(FirstLeaf(GroupOf(n)) + i - 1)]],
              leaves |-> leaves,
              root |-> NodeProperties(0, 1),
              blockIDBits |-> BitsFor(k - 1)]

Trees(maxLeaves, maxTriangles) ==
    UNION {{TreeOf(sizes, groups) : groups \in Groupings(Len(sizes))} :
              sizes \in LeafSizeLists(maxLeaves, maxTriangles)}

(***************************************************************************)
(* Rays.  A ray is given by what the intersection tests return for it.     *)
(* Fractions lie on a grid; FLT_MAX is the answer of a test that misses.   *)
(* The distance of a box is never larger than the fraction of a triangle   *)
(* or the distance of a box inside it.                                     *)
(***************************************************************************)
\* the grid: the start of the ray, a point on it, and the first point past it
Fractions == {0, 1, cInitialEarlyOutFraction}
Distances == Fractions \cup {FLT_MAX}

MinOf(S) == CHOOSE m \in S : \A x \in S : m <= x

NumBlocks(tree) == Len(tree.leaves)
NumTriangles(tree) == Cardinality(UNION {Range(tree.leaves[b]) : b \in 1 .. NumBlocks(tree)})

\* the distance RayAABox4 reports for the box of a child
Dist(r, props) ==
    IF props.tri_count = 0 THEN r.nodeDistance[props.offset]
    ELSE r.leafDistance[props.offset + 1]

\* the fractions RayTriangle can report for the triangles of a tree
TriangleFractions(tree) == [1 .. NumTriangles(tree) -> Distances]

\* the distances of the boxes of the blocks, given the fractions
LeafDistances(tree, fr) ==
    {ld \in [1 .. NumBlocks(tree) -> Distances] :
        \A b \in 1 .. NumBlocks(tree) :
            ld[b] <= MinOf({fr[t] : t \in Range(tree.leaves[b])})}

\* the distances of the boxes of the inner nodes, given those of the blocks;
\* the root is node 1 and has no box of its own
NodeDistances(tree, ld) ==
    {nd \in [1 .. Len(tree.nodes) -> Distances] :
        \A n \in 1 .. Len(tree.nodes) :
            IF n = 1 THEN nd[n] = 0
            ELSE nd[n] <= MinOf({ld[c.offset + 1] : c \in Range(tree.nodes[n])})}

\* every lane order Sort4Reverse can leave the children in: farthest first,
\* children at equal distance in either order
Sort4Reverse(children, r) ==
    {p \in [1 .. Len(children) -> Range(children)] :
        /\ Range(p) = Range(children)
        /\ \A i \in 1 .. (Len(p) - 1) : Dist(r, p[i]) >= Dist(r, p[i + 1])}

\* TriangleCodec TestRay on one block: the smallest fraction below inClosest
\* and the index in the block of a triangle that has it
TestRay(block, r, inClosest) ==
    LET closest == MinOf({r.fraction[block[i]] : i \in 1 .. Len(block)} \cup {inClosest})
    IN  IF closest < inClosest
        THEN {[fraction |-> closest, outClosestTriangleIndex |-> i - 1] :
                 i \in {j \in 1 .. Len(block) : r.fraction[block[j]] = closest}}
        ELSE {[fraction |-> inClosest, outClosestTriangleIndex |-> 0]}

(***************************************************************************)
(* NodeCodec WalkTree: one round of its loop visits the node on top of the *)
(* stack, then stops when the visitor aborts, or else pops until it finds  *)
(* a node the visitor still wants.                                         *)
(***************************************************************************)
RECURSIVE PopNodes(_, _)
PopNodes(should, top) ==
    LET t == top - 1
    IN  IF t >= 0 /\ ~should[t + 1] THEN PopNodes(should, t) ELSE t

\* the entries a visitor stores at the top of the stack replace the node
\* just visited; mTop then points past them
PushNodes(stack, top, pushed) == SubSeq(stack, 1, top) \o pushed

\* the first n entries of a stack, or all it has
InUse(stack, n) == SubSeq(stack, 1, IF n < Len(stack) THEN n ELSE Len(stack))

WalkTreeContinue(stack, top, abort, should) ==
    IF abort
    THEN /\ mNodeStack' = stack
         /\ mTop' = top
         /\ walkPc' = "walked"
    ELSE LET t == PopNodes(should, top)
         IN  /\ mNodeStack' = InUse(stack, t + 1)
             /\ mTop' = t
             /\ walkPc' = IF t < 0 THEN "walked" ELSE "walking"

IsDoneWalking == mTop < 0

\* the shape of this specification is built: its tree is one of trees, the
\* size of its material table one of materials
BuiltShape(trees, materials) ==
    /\ buildPc = "done"
    /\ mMaterials \in materials
    /\ indexed_triangles = <<>>
    /\ mTree \in trees
    /\ ran = {}
    /\ assertFailed = FALSE

(***************************************************************************)
(* Specification SpecRay: MeshShape::CastRay, the nearest hit of a ray,    *)
(* on a built shape.                                                       *)
(***************************************************************************)
CastRay_ShouldAbort(hit) == hit.mFraction <= 0

CastRay_ShouldVisitNode(dstack, inStackTop, hit) == dstack[inStackTop + 1] < hit.mFraction

\* the lanes that are kept if the shift drops the wrong end of the sorted lanes
CastRay_VisitNodes_KeepFirst(sorted, r, hit) ==
    LET num_results == Cardinality({i \in 1 .. Len(sorted) : Dist(r, sorted[i]) < hit.mFraction})
    IN  SubSeq(sorted, 1, num_results)

\* the children that stay on the stack: of the lanes sorted farthest first,
\* the last num_results
CastRay_VisitNodes(sorted, r, hit) ==
    LET num_results == Cardinality({i \in 1 .. Len(sorted) : Dist(r, sorted[i]) < hit.mFraction})
    IN  SubSeq(sorted, Len(sorted) - num_results + 1, Len(sorted))

\* VisitTriangles that also takes a triangle that is not closer
CastRay_VisitTriangles_NotCloser(test, hit, blockID) ==
    IF test.fraction <= hit.mFraction
    THEN [hit |-> RayCastResult(test.fraction,
                      TriangleSubShapeID(EmptyCreator, blockID, sTriangleBlockIDBits(mTree),
                                         test.outClosestTriangleIndex)),
          mReturnValue |-> TRUE]
    ELSE [hit |-> hit, mReturnValue |-> mReturnValue]

\* the hit after the triangles of a block were tested, test being what
\* TestRay returned
CastRay_VisitTriangles(test, hit, blockID) ==
    IF test.fraction < hit.mFraction
    THEN [hit |-> RayCastResult(test.fraction,
                      TriangleSubShapeID(EmptyCreator, blockID,
                          sTriangleBlockIDBits(mTree), test.outClosestTriangleIndex)),
          mReturnValue |-> TRUE]
    ELSE [hit |-> hit, mReturnValue |-> mReturnValue]

DistancesOf(r, nodes) == [i \in 1 .. Len(nodes) |-> Dist(r, nodes[i])]

RayInit ==
    /\ IdIdle
    /\ EdgeIdle
    /\ ScaleIdle
    /\ CreateIdle
    /\ ParIdle
    /\ SaveIdle
    /\ SetIdle
    /\ BuiltShape(Trees(MaxLeaves, MaxTriangles), {0})
    /\ GetTrianglesIdle
    /\ CollectorIdle
    /\ walkPc = "idle"
    /\ query = "none"
    /\ ray = NoRay
    /\ mNodeStack = <<>>
    /\ mTop = -1
    /\ mDistanceStack = <<>>
    /\ mHit = RayCastResult(0, cEmpty)
    /\ mReturnValue = FALSE
    /\ inHit = RayCastResult(0, cEmpty)
    /\ visited = <<>>

\* the rays cast at a tree, with the facing of each triangle drawn from facings
Rays(tree, facings) ==
    UNION {UNION {{[fraction |-> fr, back |-> bk, leafDistance |-> ld, nodeDistance |-> nd] :
                      nd \in NodeDistances(tree, ld),
                      bk \in [1 .. NumTriangles(tree) -> facings]} :
                  ld \in LeafDistances(tree, fr)} :
              fr \in TriangleFractions(tree)}

\* CastRay up to the call of WalkTree, for a ray of rays and an incoming
\* ioHit.mFraction of incoming; the walker starts at the root
CastRayOf(rays, incoming) ==
    /\ walkPc = "idle"
    /\ ray' \in rays
    /\ \E f0 \in incoming :
           /\ inHit' = RayCastResult(f0, cEmpty)
           /\ mHit' = RayCastResult(f0, cEmpty)
    /\ query' = "CastRay"
    /\ mReturnValue' = FALSE
    /\ mNodeStack' = <<mTree.root>>
    /\ mDistanceStack' = <<FLT_MAX>>
    /\ mTop' = 0
    /\ visited' = <<>>
    /\ walkPc' = "walking"
    /\ UNCHANGED <<triVars, colVars>>
    /\ UNCHANGED <<idVars, edgeVars, scaleVars, createVars, parVars, saveVars, setVars, buildVars>>

\* the cast does not look at the facing of a triangle
CastRay == CastRayOf(Rays(mTree, {FALSE}), Fractions)

\* one round of WalkTree with the visitor of CastRay
CastRayWalk ==
    /\ walkPc = "walking"
    /\ query = "CastRay"
    /\ LET node_properties == mNodeStack[mTop + 1]
       IN  /\ visited' = Append(visited, node_properties)
           /\ IF node_properties.tri_count = 0
              THEN \E sorted \in Sort4Reverse(mTree.nodes[node_properties.offset], ray) :
                       LET pushed == CastRay_VisitNodes(sorted, ray, mHit)
                           stack == PushNodes(mNodeStack, mTop, pushed)
                           dstack == PushNodes(mDistanceStack, mTop, DistancesOf(ray, pushed))
                       IN  /\ UNCHANGED <<mHit, mReturnValue>>
                           /\ WalkTreeContinue(stack, mTop + Len(pushed),
                                  CastRay_ShouldAbort(mHit),
                                  [i \in 1 .. Len(stack) |->
                                      CastRay_ShouldVisitNode(dstack, i - 1, mHit)])
                           /\ mDistanceStack' = InUse(dstack, mTop' + 1)
              ELSE \E test \in TestRay(mTree.leaves[node_properties.offset + 1], ray,
                                        mHit.mFraction) :
                       LET after == CastRay_VisitTriangles(test, mHit, node_properties.offset)
                       IN  /\ mHit' = after.hit
                           /\ mReturnValue' = after.mReturnValue
                           /\ WalkTreeContinue(mNodeStack, mTop,
                                  CastRay_ShouldAbort(after.hit),
                                  [i \in 1 .. Len(mNodeStack) |->
                                      CastRay_ShouldVisitNode(mDistanceStack, i - 1, after.hit)])
                           /\ mDistanceStack' = InUse(mDistanceStack, mTop' + 1)
    /\ UNCHANGED <<query, ray, inHit>>
    /\ UNCHANGED <<triVars, colVars>>
    /\ UNCHANGED <<idVars, edgeVars, scaleVars, createVars, parVars, saveVars, setVars, buildVars>>

\* CastRay returns visitor.mReturnValue; ioHit is what the visitor left in it
CastRayReturn ==
    /\ walkPc = "walked"
    /\ query = "CastRay"
    /\ walkPc' = "returned"
    /\ UNCHANGED <<query, ray, mNodeStack, mTop, mDistanceStack, mHit, mReturnValue,
                   inHit, visited>>
    /\ UNCHANGED <<triVars, colVars>>
    /\ UNCHANGED <<idVars, edgeVars, scaleVars, createVars, parVars, saveVars, setVars, buildVars>>

RayNext == CastRay \/ CastRayWalk \/ CastRayReturn

SpecRay == RayInit /\ [][RayNext]_vars

\* the triangles an exhaustive traversal finds below the fraction passed in
ExhaustiveHits == {t \in DOMAIN ray.fraction : ray.fraction[t] < inHit.mFraction}

\* the number of the triangle at an index of a block
TriangleAt(blockID, triangleIndex) ==
    mTree.leaves[blockID + 1][triangleIndex + 1]

\* C1: when the nearest-hit CastRay has returned, it returned true exactly
\* when an exhaustive traversal finds a triangle hit below the fraction
\* passed in, and then the hit holds the smallest fraction over all
\* triangles and a sub-shape id that decodes to the block and index of a
\* triangle with that fraction; otherwise the hit is as it was passed in
C1_NearestIsExhaustive ==
    (walkPc = "returned" /\ query = "CastRay") =>
        /\ mReturnValue = (ExhaustiveHits # {})
        /\ ExhaustiveHits # {} =>
               LET id == DecodeSubShapeID(mHit.mSubShapeID2, sTriangleBlockIDBits(mTree))
               IN  /\ mHit.mFraction = MinOf({ray.fraction[t] : t \in ExhaustiveHits})
                   /\ id.block_id < NumBlocks(mTree)
                   /\ id.outTriangleIndex < Len(mTree.leaves[id.block_id + 1])
                   /\ ray.fraction[TriangleAt(id.block_id, id.outTriangleIndex)] = mHit.mFraction
                   /\ IsEmpty(id.remainder)
        /\ ExhaustiveHits = {} => mHit = inHit

\* the cast pruned a box and still returned the nearest of two hits
C1_Witness ==
    /\ walkPc = "returned"
    /\ query = "CastRay"
    /\ mReturnValue
    /\ Cardinality(ExhaustiveHits) >= 2
    /\ Len(visited) <= NumBlocks(mTree)
    /\ NumBlocks(mTree) >= 2
    /\ \E t \in ExhaustiveHits : ray.fraction[t] > mHit.mFraction

\* a round of the walk of the nearest-hit CastRay leaves the hit alone or
\* lowers its fraction to that of a triangle of the leaf visited and writes
\* the id of that triangle with it (an id that may have the bits of the one
\* it replaces)
HitOnlyLowered ==
    (walkPc = "walking" /\ query = "CastRay") =>
        /\ inHit' = inHit
        /\ mHit'.mFraction <= mHit.mFraction
        /\ mHit'.mSubShapeID2 # mHit.mSubShapeID2 => mHit'.mFraction # mHit.mFraction
        /\ mHit' # mHit =>
               /\ mHit'.mFraction < mHit.mFraction
               /\ mReturnValue'
               /\ LET node_properties == mNodeStack[mTop + 1]
                  IN  /\ node_properties.tri_count # 0
                      /\ \E triangle_idx \in 0 .. (node_properties.tri_count - 1) :
                             /\ ray.fraction[TriangleAt(node_properties.offset, triangle_idx)]
                                    = mHit'.mFraction
                             /\ mHit'.mSubShapeID2
                                    = TriangleSubShapeID(EmptyCreator, node_properties.offset,
                                          sTriangleBlockIDBits(mTree), triangle_idx)
        /\ mHit' = mHit => mReturnValue' = mReturnValue

\* a cast that returns false, or has not found a triangle yet, has the hit
\* it was passed
FalseLeavesHit ==
    (query = "CastRay" /\ ~mReturnValue) => mHit = inHit

\* C21 as stated: during a nearest-hit CastRay the fraction of the hit
\* never goes up, fraction and sub-shape id are written together and only
\* for a triangle strictly closer than the hit; a cast that returns false
\* leaves the hit as passed in; with a fraction passed in that is not
\* above 0 no node is visited and false is returned
C21_NoNodeVisitedAtZero ==
    /\ [][HitOnlyLowered]_vars
    /\ [](FalseLeavesHit)
    /\ []((query = "CastRay" /\ inHit.mFraction <= 0) =>
              (visited = <<>> /\ ~mReturnValue))

\* C21: during a nearest-hit CastRay the fraction of the hit never goes
\* up, fraction and sub-shape id are written together and only for a
\* triangle strictly closer than the hit; a cast that returns false leaves
\* the hit as passed in; with a fraction passed in that is not above 0 the
\* root is the one node visited, before ShouldAbort is first asked, nothing
\* is written and false is returned
C21_OnlyRootVisitedAtZero ==
    /\ [][HitOnlyLowered]_vars
    /\ [](FalseLeavesHit)
    /\ []((query = "CastRay" /\ inHit.mFraction <= 0) =>
              /\ visited \in {<<>>, <<mTree.root>>}
              /\ walkPc # "walking" => visited = <<mTree.root>>
              /\ mHit = inHit
              /\ ~mReturnValue)

\* a cast passed the fraction 0 has returned false after its visit of the
\* root, over triangles that the ray meets
C21_Witness ==
    /\ walkPc = "returned"
    /\ query = "CastRay"
    /\ inHit.mFraction <= 0
    /\ visited = <<mTree.root>>
    /\ ~mReturnValue
    /\ mHit = inHit
    /\ NumTriangles(mTree) >= 2
    /\ \A t \in DOMAIN ray.fraction : ray.fraction[t] < cInitialEarlyOutFraction

(***************************************************************************)
(* Specification SpecTriangles: GetTrianglesStart on a built shape, then   *)
(* calls of GetTrianglesNext.  The query box is given by the boxes of the  *)
(* tree it touches; a box that is touched lies in touched boxes only.      *)
(***************************************************************************)
\* number of triangles of a tree that triangles are fetched from
MaxMeshTriangles == 5
\* calls of GetTrianglesNext made after the walk is done
MaxDoneCalls == 2

\* the least inMaxTrianglesRequested a caller may pass
cGetTrianglesMinTrianglesRequested == MaxTrianglesPerLeaf

\* the values of inMaxTrianglesRequested tried
TriangleRequests ==
    {cGetTrianglesMinTrianglesRequested, cGetTrianglesMinTrianglesRequested + 1,
     2 * cGetTrianglesMinTrianglesRequested}

\* PhysicsMaterial::sDefault, where a material is named by its index
sDefault == -1

\* the flags byte of a triangle: its material index and all edges active
sGetFlags(t, numMaterials) ==
    ((t - 1) % numMaterials) + FLAGS_ACTIVE_EDGE_MASK * Pow2(FLAGS_ACTIVE_EGDE_SHIFT)

\* corner c of triangle t as stored in the buffer
Vertex(t, c) == [triangle |-> t, corner |-> c, world |-> FALSE]

\* TriangleCodec Unpack: three vertices per triangle of the block
Unpack(block) ==
    [i \in 1 .. (3 * Len(block)) |-> Vertex(block[((i - 1) \div 3) + 1], (i - 1) % 3)]

\* mLocalToWorld * v
LocalToWorld(v) == [v EXCEPT !.world = TRUE]

Boxes(tree) ==
    {[leaf |-> l, node |-> n] :
        l \in [1 .. NumBlocks(tree) -> BOOLEAN],
        n \in [1 .. Len(tree.nodes) -> BOOLEAN]}

\* AABox4VsBox for the box of a child
Collides(box, props) ==
    IF props.tri_count = 0 THEN box.node[props.offset] ELSE box.leaf[props.offset + 1]

\* the root has no box that is tested; the box of a node holds those of its children
IsBox(tree, box) ==
    \A n \in 1 .. Len(tree.nodes) :
        IF n = 1 THEN box.node[n]
        ELSE (\E c \in Range(tree.nodes[n]) : Collides(box, c)) => box.node[n]

\* every lane order sSort4True can leave the colliding children in
Sort4True(children, box) ==
    LET colliding == {c \in Range(children) : Collides(box, c)}
    IN  {p \in [1 .. Cardinality(colliding) -> colliding] : Range(p) = colliding}

\* VisitTriangles writing through the abort: the early return is missing
GetTriangles_VisitTriangles_NoReturn(ctx, block, vertices_out, materials_out, numMaterials) ==
    LET n == Len(block)
        vertices == Unpack(block)
    IN  [context |-> [ctx EXCEPT !.mShouldAbort = ctx.mNumTrianglesFound + n
                                                  > ctx.mMaxTrianglesRequested,
                                 !.mNumTrianglesFound = @ + n],
         vertices |-> vertices_out \o [i \in 1 .. (3 * n) |-> LocalToWorld(vertices[i])],
         materials |-> IF ctx.mMaterials
                       THEN materials_out \o [m \in 1 .. n |-> sDefault]
                       ELSE materials_out,
         written |-> block]

\* VisitTriangles that also aborts on a block that fills the buffer exactly
GetTriangles_VisitTriangles_AbortWhenFull(ctx, block, vertices_out, materials_out, numMaterials) ==
    IF ctx.mNumTrianglesFound + Len(block) >= ctx.mMaxTrianglesRequested
    THEN [context |-> [ctx EXCEPT !.mShouldAbort = TRUE],
          vertices |-> vertices_out, materials |-> materials_out, written |-> <<>>]
    ELSE GetTriangles_VisitTriangles_NoReturn(ctx, block, vertices_out, materials_out,
                                              numMaterials)

\* VisitTriangles storing the vertices in their order whatever the scale
GetTriangles_VisitTriangles_NoFlip(ctx, block, vertices_out, materials_out, numMaterials) ==
    IF ctx.mNumTrianglesFound + Len(block) > ctx.mMaxTrianglesRequested
    THEN [context |-> [ctx EXCEPT !.mShouldAbort = TRUE],
          vertices |-> vertices_out, materials |-> materials_out, written |-> <<>>]
    ELSE LET n == Len(block)
             vertices == Unpack(block)
             stored == [i \in 1 .. (3 * n) |-> LocalToWorld(vertices[i])]
             mats == IF numMaterials = 0
                     THEN [m \in 1 .. n |-> sDefault]
                     ELSE [m \in 1 .. n |->
                             sGetFlags(block[m], numMaterials) % (FLAGS_MATERIAL_MASK + 1)]
         IN  [context |-> [ctx EXCEPT !.mNumTrianglesFound = @ + n],
              vertices |-> vertices_out \o stored,
              materials |-> IF ctx.mMaterials THEN materials_out \o mats ELSE materials_out,
              written |-> block]

\* MSGetTrianglesContext::VisitTriangles: the context and the output arrays
\* after the call, and the triangles it wrote
GetTriangles_VisitTriangles(ctx, block, vertices_out, materials_out, numMaterials) ==
    IF ctx.mNumTrianglesFound + Len(block) > ctx.mMaxTrianglesRequested
    THEN [context |-> [ctx EXCEPT !.mShouldAbort = TRUE],
          vertices |-> vertices_out, materials |-> materials_out, written |-> <<>>]
    ELSE LET n == Len(block)
             vertices == Unpack(block)
             Flipped(i) == LET v == 3 * ((i - 1) \div 3)
                               c == (i - 1) % 3
                           IN  v + (IF c = 0 THEN 0 ELSE 3 - c) + 1
             stored == IF ctx.mIsInsideOut
                       THEN [i \in 1 .. (3 * n) |-> LocalToWorld(vertices[Flipped(i)])]
                       ELSE [i \in 1 .. (3 * n) |-> LocalToWorld(vertices[i])]
             mats == IF numMaterials = 0
                     THEN [m \in 1 .. n |-> sDefault]
                     ELSE [m \in 1 .. n |->
                             sGetFlags(block[m], numMaterials) % (FLAGS_MATERIAL_MASK + 1)]
         IN  [context |-> [ctx EXCEPT !.mNumTrianglesFound = @ + n],
              vertices |-> vertices_out \o stored,
              materials |-> IF ctx.mMaterials THEN materials_out \o mats ELSE materials_out,
              written |-> block]

TriInit ==
    /\ IdIdle
    /\ EdgeIdle
    /\ ScaleIdle
    /\ CreateIdle
    /\ ParIdle
    /\ SaveIdle
    /\ SetIdle
    /\ BuiltShape(Trees(MaxLeaves, MaxMeshTriangles), {0, 2})
    /\ GetTrianglesIdle
    /\ CollectorIdle
    /\ walkPc = "idle"
    /\ query = "none"
    /\ ray = NoRay
    /\ mNodeStack = <<>>
    /\ mTop = -1
    /\ mDistanceStack = <<>>
    /\ mHit = RayCastResult(0, cEmpty)
    /\ mReturnValue = FALSE
    /\ inHit = RayCastResult(0, cEmpty)
    /\ visited = <<>>

\* GetTrianglesStart: the context is constructed, its walker at the root
GetTrianglesStart ==
    /\ walkPc = "idle"
    /\ \E box \in Boxes(mTree), inside_out \in BOOLEAN :
           /\ IsBox(mTree, box)
           /\ context' = [NoContext EXCEPT !.mLocalBox = box, !.mIsInsideOut = inside_out]
    /\ mNodeStack' = <<mTree.root>>
    /\ mTop' = 0
    /\ query' = "GetTriangles"
    /\ walkPc' = "started"
    /\ UNCHANGED <<outTriangleVertices, outMaterials, result, emitted, resumedAt, doneCalls,
                   ray, mDistanceStack, mHit, mReturnValue, inHit, visited, colVars>>
    /\ UNCHANGED <<idVars, edgeVars, scaleVars, createVars, parVars, saveVars, setVars, buildVars>>

\* GetTrianglesNext up to the call of WalkTree, or all of it when the walk is
\* done; inMaxTrianglesRequested is drawn from values that pass the assert
GetTrianglesNext ==
    /\ walkPc \in {"started", "returned"}
    /\ query = "GetTriangles"
    /\ outTriangleVertices' = <<>>
    /\ outMaterials' = <<>>
    /\ visited' = <<>>
    /\ IF IsDoneWalking
       THEN /\ doneCalls < MaxDoneCalls
            /\ doneCalls' = doneCalls + 1
            /\ result' = 0
            /\ resumedAt' = NoNode
            /\ walkPc' = "returned"
            /\ UNCHANGED context
       ELSE /\ \E inMaxTrianglesRequested \in TriangleRequests, materials \in BOOLEAN :
                   context' = [context EXCEPT
                                  !.mMaxTrianglesRequested = inMaxTrianglesRequested,
                                  !.mMaterials = materials,
                                  !.mShouldAbort = FALSE,
                                  !.mNumTrianglesFound = 0]
            /\ resumedAt' = IF context.mShouldAbort THEN mNodeStack[mTop + 1] ELSE NoNode
            /\ walkPc' = "walking"
            /\ UNCHANGED <<result, doneCalls>>
    /\ UNCHANGED <<emitted, query, ray, mNodeStack, mTop, mDistanceStack, mHit,
                   mReturnValue, inHit, colVars>>
    /\ UNCHANGED <<idVars, edgeVars, scaleVars, createVars, parVars, saveVars, setVars, buildVars>>

\* one round of WalkTree with the context as visitor
GetTrianglesWalk ==
    /\ walkPc = "walking"
    /\ query = "GetTriangles"
    /\ LET node_properties == mNodeStack[mTop + 1]
       IN  /\ visited' = Append(visited, node_properties)
           /\ IF node_properties.tri_count = 0
              THEN \E pushed \in Sort4True(mTree.nodes[node_properties.offset],
                                           context.mLocalBox) :
                       LET stack == PushNodes(mNodeStack, mTop, pushed)
                       IN  /\ WalkTreeContinue(stack, mTop + Len(pushed),
                                  context.mShouldAbort, [i \in 1 .. Len(stack) |-> TRUE])
                           /\ UNCHANGED <<context, outTriangleVertices, outMaterials, emitted>>
              ELSE LET after == GetTriangles_VisitTriangles(context,
                                    mTree.leaves[node_properties.offset + 1],
                                    outTriangleVertices, outMaterials, mMaterials)
                   IN  /\ context' = after.context
                       /\ outTriangleVertices' = after.vertices
                       /\ outMaterials' = after.materials
                       /\ emitted' = emitted \o after.written
                       /\ WalkTreeContinue(mNodeStack, mTop, after.context.mShouldAbort,
                              [i \in 1 .. Len(mNodeStack) |-> TRUE])
    /\ UNCHANGED <<result, resumedAt, doneCalls, query, ray, mDistanceStack, mHit,
                   mReturnValue, inHit, colVars>>
    /\ UNCHANGED <<idVars, edgeVars, scaleVars, createVars, parVars, saveVars, setVars, buildVars>>

\* GetTrianglesNext returns context.mNumTrianglesFound
GetTrianglesReturn ==
    /\ walkPc = "walked"
    /\ query = "GetTriangles"
    /\ result' = context.mNumTrianglesFound
    /\ walkPc' = "returned"
    /\ UNCHANGED <<context, outTriangleVertices, outMaterials, emitted, resumedAt, doneCalls,
                   query, ray, mNodeStack, mTop, mDistanceStack, mHit, mReturnValue, inHit,
                   visited, colVars>>
    /\ UNCHANGED <<idVars, edgeVars, scaleVars, createVars, parVars, saveVars, setVars, buildVars>>

TriNext == GetTrianglesStart \/ GetTrianglesNext \/ GetTrianglesWalk \/ GetTrianglesReturn

SpecTriangles == TriInit /\ [][TriNext]_vars

\* the caller keeps calling GetTrianglesNext, and a call that has started
\* runs to its return
SpecTrianglesFair == SpecTriangles /\ WF_vars(TriNext)

\* a call of GetTrianglesNext has returned
CallReturned == walkPc = "returned" /\ query = "GetTriangles"

\* the box given to GetTrianglesStart touches every box of the tree
Covering ==
    /\ query = "GetTriangles"
    /\ \A b \in DOMAIN context.mLocalBox.leaf : context.mLocalBox.leaf[b]
    /\ \A n \in DOMAIN context.mLocalBox.node : context.mLocalBox.node[n]

ZeroReturned == CallReturned /\ result = 0

\* every triangle of the mesh was written, and none twice
EmittedOnce ==
    /\ Len(emitted) = NumTriangles(mTree)
    /\ Range(emitted) = 1 .. NumTriangles(mTree)

NoneTwice == \A i, j \in 1 .. Len(emitted) : emitted[i] = emitted[j] => i = j

\* C2: with a box that covers the mesh and the caller calling on, a call of
\* GetTrianglesNext eventually returns 0; once a call has returned 0 no step
\* leads to a state other than a call having returned 0; when a call
\* returns 0 every triangle of the mesh has been written exactly once, and
\* at no time was one written twice
C2_EachTriangleOnceThenZero ==
    /\ [](Covering => <>ZeroReturned)
    /\ [][Covering /\ ZeroReturned => ZeroReturned']_vars
    /\ [](Covering /\ ZeroReturned => EmittedOnce)
    /\ [](Covering => NoneTwice)

\* all calls after the walk was done returned 0, and the mesh did not fit
\* the buffer of one call
C2_Witness ==
    /\ Covering
    /\ ZeroReturned
    /\ doneCalls = MaxDoneCalls
    /\ EmittedOnce
    /\ NumBlocks(mTree) >= 2
    /\ NumTriangles(mTree) > context.mMaxTrianglesRequested

\* C3: when a call of GetTrianglesNext has returned, the count is at most
\* the count requested, three vertices per counted triangle were written
\* and a material per counted triangle if materials were requested; if the
\* walk stopped before its end, the block on top of the stack did not fit
\* the room left and none of its triangles was written; and if the call
\* before stopped at a block, this call wrote that block first, in full
C3_CallWritesWholeBlocks ==
    CallReturned =>
        /\ result <= context.mMaxTrianglesRequested
        /\ Len(outTriangleVertices) = 3 * result
        /\ Len(outMaterials) = IF context.mMaterials THEN result ELSE 0
        /\ ~context.mShouldAbort => IsDoneWalking
        /\ context.mShouldAbort =>
               /\ mTop >= 0
               /\ Len(mNodeStack) = mTop + 1
               /\ LET leaf == mNodeStack[mTop + 1]
                  IN  /\ leaf.tri_count > 0
                      /\ leaf.tri_count = Len(mTree.leaves[leaf.offset + 1])
                      /\ result + leaf.tri_count > context.mMaxTrianglesRequested
                      /\ \A t \in Range(mTree.leaves[leaf.offset + 1]) :
                             t \notin Range(emitted)
        /\ resumedAt # NoNode =>
               LET block == mTree.leaves[resumedAt.offset + 1]
               IN  /\ resumedAt.tri_count = Len(block)
                   /\ result >= Len(block)
                   /\ \A i \in 1 .. (3 * Len(block)) :
                          outTriangleVertices[i].triangle = block[((i - 1) \div 3) + 1]

\* a call resumed at the block the call before had stopped at, and wrote
\* flipped triangles and their materials
C3_Witness ==
    /\ CallReturned
    /\ resumedAt # NoNode
    /\ result > 0
    /\ context.mMaterials
    /\ context.mIsInsideOut
    /\ mMaterials > 0

(***************************************************************************)
(* Specification SpecCollector: the CastRay that reports to a collector,   *)
(* run on the ray of a nearest-hit CastRay that has returned, and          *)
(* CollidePoint, which runs it with a collector of its own.                *)
(***************************************************************************)
\* the fraction at or below which a collector of ray cast results gives up
ShouldEarlyOutFraction == 0

\* CollisionCollector::ShouldEarlyOut, for a collector of ray cast results
ShouldEarlyOut(collector) == collector.mEarlyOutFraction <= ShouldEarlyOutFraction

\* AddHit of HitCountCollector, of a collector that keeps the closest hit
\* (UpdateEarlyOutFraction), of one that keeps any hit (ForceEarlyOut), and
\* of one that keeps every hit
AddHit(collector, inResult) ==
    LET called == [collector EXCEPT !.hits = Append(@, inResult),
                                    !.late = @ + (IF ShouldEarlyOut(collector) THEN 1 ELSE 0)]
    IN  CASE collector.kind = "HitCount" ->
                 [called EXCEPT !.mSubShapeID = inResult.mSubShapeID2, !.mHitCount = @ + 1]
          [] collector.kind = "ClosestHit" ->
                 [called EXCEPT !.mEarlyOutFraction =
                                    IF inResult.mFraction < @ THEN inResult.mFraction ELSE @]
          [] collector.kind = "AnyHit" ->
                 [called EXCEPT !.mEarlyOutFraction = ShouldEarlyOutFraction]
          [] OTHER -> called

\* the collectors handed to CastRay
CollectorKinds == {"AllHit", "ClosestHit", "AnyHit"}

\* RayTriangle is called for triangle t of a block
Tested(collector, t, blockID) ==
    [collector EXCEPT !.tested = Append(@, [triangle |-> t, block |-> blockID,
                                            aborted |-> ShouldEarlyOut(collector)])]

BackFaceModes == {"IgnoreBackFaces", "CollideWithBackFaces"}

CastRayCollector_ShouldVisitNode(dstack, inStackTop, collector) ==
    dstack[inStackTop + 1] < collector.mEarlyOutFraction

CastRayCollector_VisitNodes(sorted, r, collector) ==
    LET num_results == Cardinality({i \in 1 .. Len(sorted) :
                           Dist(r, sorted[i]) < collector.mEarlyOutFraction})
    IN  SubSeq(sorted, Len(sorted) - num_results + 1, Len(sorted))

\* the triangle loop leaving out every triangle that faces away, whatever the mode
RECURSIVE TriangleLoop_AlwaysCull(_, _, _, _, _, _)
TriangleLoop_AlwaysCull(collector, block, r, mode, blockID, triangle_idx) ==
    IF triangle_idx >= Len(block) THEN collector
    ELSE LET t == block[triangle_idx + 1]
             fraction == r.fraction[t]
         IN  IF r.back[t]
             THEN TriangleLoop_AlwaysCull(collector, block, r, mode, blockID, triangle_idx + 1)
             ELSE IF fraction < collector.mEarlyOutFraction
             THEN TriangleLoop_AlwaysCull(
                      AddHit(Tested(collector, t, blockID), RayCastResult(fraction,
                          TriangleSubShapeID(EmptyCreator, blockID,
                              sTriangleBlockIDBits(mTree), triangle_idx))),
                      block, r, mode, blockID, triangle_idx + 1)
             ELSE TriangleLoop_AlwaysCull(Tested(collector, t, blockID), block, r, mode,
                                          blockID, triangle_idx + 1)

\* the triangle loop comparing with the fraction a collector starts out with
RECURSIVE TriangleLoop_InitialFraction(_, _, _, _, _, _)
TriangleLoop_InitialFraction(collector, block, r, mode, blockID, triangle_idx) ==
    IF triangle_idx >= Len(block) THEN collector
    ELSE LET t == block[triangle_idx + 1]
             fraction == r.fraction[t]
         IN  IF mode = "IgnoreBackFaces" /\ r.back[t]
             THEN TriangleLoop_InitialFraction(collector, block, r, mode, blockID,
                                               triangle_idx + 1)
             ELSE IF fraction < cInitialEarlyOutFraction
             THEN TriangleLoop_InitialFraction(
                      AddHit(Tested(collector, t, blockID), RayCastResult(fraction,
                          TriangleSubShapeID(EmptyCreator, blockID,
                              sTriangleBlockIDBits(mTree), triangle_idx))),
                      block, r, mode, blockID, triangle_idx + 1)
             ELSE TriangleLoop_InitialFraction(Tested(collector, t, blockID), block, r, mode,
                                               blockID, triangle_idx + 1)

\* the loop over the triangles of a block, from triangle_idx on: the
\* collector after it
RECURSIVE TriangleLoop(_, _, _, _, _, _)
TriangleLoop(collector, block, r, mode, blockID, triangle_idx) ==
    IF triangle_idx >= Len(block) THEN collector
    ELSE LET t == block[triangle_idx + 1]
             fraction == r.fraction[t]
         IN  IF mode = "IgnoreBackFaces" /\ r.back[t]
             THEN TriangleLoop(collector, block, r, mode, blockID, triangle_idx + 1)
             ELSE IF fraction < collector.mEarlyOutFraction
             THEN TriangleLoop(
                      AddHit(Tested(collector, t, blockID), RayCastResult(fraction,
                          TriangleSubShapeID(EmptyCreator, blockID,
                              sTriangleBlockIDBits(mTree), triangle_idx))),
                      block, r, mode, blockID, triangle_idx + 1)
             ELSE TriangleLoop(Tested(collector, t, blockID), block, r, mode, blockID,
                               triangle_idx + 1)

CastRayCollector_VisitTriangles(collector, block, r, mode, blockID) ==
    TriangleLoop(collector, block, r, mode, blockID, 0)

\* the parity test taking any hit for an odd count
CollidePoint_IsInside_AnyHit(collector) == collector.mHitCount >= 1

\* CollidePoint: an odd count of hits means inside
CollidePoint_IsInside(collector) == collector.mHitCount % 2 = 1

ColInit ==
    /\ IdIdle
    /\ EdgeIdle
    /\ ScaleIdle
    /\ CreateIdle
    /\ ParIdle
    /\ SaveIdle
    /\ SetIdle
    /\ BuiltShape(Trees(MaxLeaves, MaxTriangles), {0})
    /\ GetTrianglesIdle
    /\ CollectorIdle
    /\ walkPc = "idle"
    /\ query = "none"
    /\ ray = NoRay
    /\ mNodeStack = <<>>
    /\ mTop = -1
    /\ mDistanceStack = <<>>
    /\ mHit = RayCastResult(0, cEmpty)
    /\ mReturnValue = FALSE
    /\ inHit = RayCastResult(0, cEmpty)
    /\ visited = <<>>

\* the nearest-hit CastRay with the whole ray as upper bound: ioHit is a
\* fresh RayCastResult
CastRayWhole == CastRayOf(Rays(mTree, BOOLEAN), {cInitialEarlyOutFraction})

\* CastRay with a collector up to the call of WalkTree, on the ray of the
\* nearest-hit cast that has returned, with a fresh collector
CastRayCollector ==
    /\ walkPc = "returned"
    /\ query = "CastRay"
    /\ \E kind \in CollectorKinds : mCollector' = Collector(kind)
    /\ mBackFaceMode' \in BackFaceModes
    /\ query' = "CastRayCollector"
    /\ mNodeStack' = <<mTree.root>>
    /\ mDistanceStack' = <<FLT_MAX>>
    /\ mTop' = 0
    /\ visited' = <<>>
    /\ walkPc' = "walking"
    /\ UNCHANGED <<triVars, ioCollector, contains, ray, mHit, mReturnValue, inHit>>
    /\ UNCHANGED <<idVars, edgeVars, scaleVars, createVars, parVars, saveVars, setVars, buildVars>>

\* CollidePoint: nothing for a point outside the bounds, else up to the call
\* of WalkTree in the CastRay it makes
CollidePoint ==
    /\ walkPc = "idle"
    /\ query' = "CollidePoint"
    /\ visited' = <<>>
    /\ \E inside \in BOOLEAN :
           /\ contains' = inside
           /\ IF inside
              THEN /\ ray' \in Rays(mTree, BOOLEAN)
                   /\ mCollector' = Collector("HitCount")
                   /\ mBackFaceMode' = "CollideWithBackFaces"
                   /\ mNodeStack' = <<mTree.root>>
                   /\ mDistanceStack' = <<FLT_MAX>>
                   /\ mTop' = 0
                   /\ walkPc' = "walking"
              ELSE /\ walkPc' = "returned"
                   /\ UNCHANGED <<ray, mCollector, mBackFaceMode, mNodeStack,
                                  mDistanceStack, mTop>>
    /\ UNCHANGED <<triVars, ioCollector, mHit, mReturnValue, inHit>>
    /\ UNCHANGED <<idVars, edgeVars, scaleVars, createVars, parVars, saveVars, setVars, buildVars>>

\* one round of WalkTree with the visitor of the CastRay that reports to a
\* collector
CastRayCollectorWalk ==
    /\ walkPc = "walking"
    /\ query \in {"CastRayCollector", "CollidePoint"}
    /\ LET node_properties == mNodeStack[mTop + 1]
       IN  /\ visited' = Append(visited, node_properties)
           /\ IF node_properties.tri_count = 0
              THEN \E sorted \in Sort4Reverse(mTree.nodes[node_properties.offset], ray) :
                       LET pushed == CastRayCollector_VisitNodes(sorted, ray, mCollector)
                           stack == PushNodes(mNodeStack, mTop, pushed)
                           dstack == PushNodes(mDistanceStack, mTop, DistancesOf(ray, pushed))
                       IN  /\ UNCHANGED mCollector
                           /\ WalkTreeContinue(stack, mTop + Len(pushed),
                                  ShouldEarlyOut(mCollector),
                                  [i \in 1 .. Len(stack) |->
                                      CastRayCollector_ShouldVisitNode(dstack, i - 1, mCollector)])
                           /\ mDistanceStack' = InUse(dstack, mTop' + 1)
              ELSE LET after == CastRayCollector_VisitTriangles(mCollector,
                                    mTree.leaves[node_properties.offset + 1], ray,
                                    mBackFaceMode, node_properties.offset)
                   IN  /\ mCollector' = after
                       /\ WalkTreeContinue(mNodeStack, mTop, ShouldEarlyOut(after),
                              [i \in 1 .. Len(mNodeStack) |->
                                  CastRayCollector_ShouldVisitNode(mDistanceStack, i - 1, after)])
                       /\ mDistanceStack' = InUse(mDistanceStack, mTop' + 1)
    /\ UNCHANGED <<triVars, mBackFaceMode, ioCollector, contains, query, ray, mHit,
                   mReturnValue, inHit>>
    /\ UNCHANGED <<idVars, edgeVars, scaleVars, createVars, parVars, saveVars, setVars, buildVars>>

\* the CastRay that reports to a collector returns
CastRayCollectorReturn ==
    /\ walkPc = "walked"
    /\ query = "CastRayCollector"
    /\ walkPc' = "returned"
    /\ UNCHANGED <<triVars, colVars, query, ray, mNodeStack, mTop, mDistanceStack, mHit,
                   mReturnValue, inHit, visited>>
    /\ UNCHANGED <<idVars, edgeVars, scaleVars, createVars, parVars, saveVars, setVars, buildVars>>

\* CollidePoint after its CastRay: a hit for the outer collector if the
\* count is odd
CollidePointReturn ==
    /\ walkPc = "walked"
    /\ query = "CollidePoint"
    /\ ioCollector' = IF CollidePoint_IsInside(mCollector)
                       THEN Append(ioCollector, mCollector.mSubShapeID)
                       ELSE ioCollector
    /\ walkPc' = "returned"
    /\ UNCHANGED <<triVars, mCollector, mBackFaceMode, contains, query, ray, mNodeStack,
                   mTop, mDistanceStack, mHit, mReturnValue, inHit, visited>>
    /\ UNCHANGED <<idVars, edgeVars, scaleVars, createVars, parVars, saveVars, setVars, buildVars>>

ColNext ==
    \/ CastRayWhole
    \/ CastRayWalk
    \/ CastRayReturn
    \/ CastRayCollector
    \/ CollidePoint
    \/ CastRayCollectorWalk
    \/ CastRayCollectorReturn
    \/ CollidePointReturn

SpecCollector == ColInit /\ [][ColNext]_vars

\* the triangles the ray hits before the fraction at which a collector
\* starts out
HitTriangles == {t \in DOMAIN ray.fraction : ray.fraction[t] < cInitialEarlyOutFraction}

\* the triangle a sub-shape id names
TriangleOf(id) ==
    LET d == DecodeSubShapeID(id, sTriangleBlockIDBits(mTree))
    IN  TriangleAt(d.block_id, d.outTriangleIndex)

\* C9: when CollidePoint has returned it has added at most one hit to the
\* outer collector; it has added one exactly when the point is inside the
\* bounds and the ray hits an odd number of triangles, whatever their
\* facing, and the id of that hit is the id of the last hit counted, a
\* triangle the ray hits; for a point outside the bounds no node was
\* visited, no collector made and no hit added
C9_PointParity ==
    (walkPc = "returned" /\ query = "CollidePoint") =>
        /\ Len(ioCollector) <= 1
        /\ (Len(ioCollector) = 1) = (contains /\ Cardinality(HitTriangles) % 2 = 1)
        /\ contains => mCollector.mHitCount = Cardinality(HitTriangles)
        /\ Len(ioCollector) = 1 =>
               /\ ioCollector[1] = mCollector.hits[Len(mCollector.hits)].mSubShapeID2
               /\ TriangleOf(ioCollector[1]) \in HitTriangles
        /\ ~contains =>
               /\ visited = <<>>
               /\ ray = NoRay
               /\ mCollector = Collector("none")
               /\ ioCollector = <<>>

\* the ray hit three triangles, one of them facing away, in two blocks
C9_Witness ==
    /\ walkPc = "returned"
    /\ query = "CollidePoint"
    /\ contains
    /\ Len(ioCollector) = 1
    /\ Cardinality(HitTriangles) = 3
    /\ NumBlocks(mTree) = 2
    /\ \E t \in HitTriangles : ray.back[t]

\* both casts have returned, the second run with the given mode and a
\* collector that keeps all hits
BothCastsReturned(mode) ==
    /\ walkPc = "returned"
    /\ query = "CastRayCollector"
    /\ mCollector.kind = "AllHit"
    /\ mBackFaceMode = mode

\* the nearest-hit cast and the hits of the collector agree: no hit in
\* either, or the hit of the nearest-hit cast has the smallest fraction of
\* the collector's hits and is one of its hits with that fraction
CastsAgree ==
    LET hits == mCollector.hits
    IN  IF hits = <<>> THEN ~mReturnValue
        ELSE /\ mReturnValue
             /\ mHit.mFraction = MinOf({hits[i].mFraction : i \in 1 .. Len(hits)})
             /\ \E i \in 1 .. Len(hits) : hits[i] = mHit

\* C10 as stated: after a nearest-hit CastRay with the whole ray as upper
\* bound and an all-hits CastRay with IgnoreBackFaces on the same ray, the
\* two agree
C10_AgreesIgnoringBackFaces == BothCastsReturned("IgnoreBackFaces") => CastsAgree

\* C10 amended: after a nearest-hit CastRay with the whole ray as upper
\* bound and an all-hits CastRay with CollideWithBackFaces on the same ray,
\* the two agree
C10_AgreesWithBackFaces == BothCastsReturned("CollideWithBackFaces") => CastsAgree

\* the nearest hit is a triangle that faces away from the ray, and the
\* collector has a farther hit as well
C10_Witness ==
    /\ BothCastsReturned("CollideWithBackFaces")
    /\ mReturnValue
    /\ ray.back[TriangleOf(mHit.mSubShapeID2)]
    /\ Len(mCollector.hits) >= 2
    /\ \E i \in 1 .. Len(mCollector.hits) : mCollector.hits[i].mFraction > mHit.mFraction

\* C11 as stated: in the CastRay that reports to a collector, no round of
\* the walk starts, no triangle is tested and AddHit is not called while
\* ShouldEarlyOut holds
C11_NothingAfterEarlyOut ==
    query = "CastRayCollector" =>
        /\ walkPc = "walking" => ~ShouldEarlyOut(mCollector)
        /\ mCollector.late = 0
        /\ \A i \in 1 .. Len(mCollector.tested) : ~mCollector.tested[i].aborted

\* the block of the triangle a hit names
BlockOf(hit) == DecodeSubShapeID(hit.mSubShapeID2, sTriangleBlockIDBits(mTree)).block_id

\* C11 amended: no round of the walk starts and AddHit is not called while
\* ShouldEarlyOut holds; a triangle tested while it holds lies in the block
\* of the last hit, the one that raised it
C11_NoVisitNoHitAfterEarlyOut ==
    query = "CastRayCollector" =>
        /\ walkPc = "walking" => ~ShouldEarlyOut(mCollector)
        /\ mCollector.late = 0
        /\ \A i \in 1 .. Len(mCollector.tested) :
               mCollector.tested[i].aborted =>
                   /\ mCollector.hits # <<>>
                   /\ mCollector.tested[i].block =
                          BlockOf(mCollector.hits[Len(mCollector.hits)])

\* the first hit raised the early out, a later triangle of its block that
\* the ray hits was tested and not added, and a block was left unvisited
C11_Witness ==
    /\ walkPc = "returned"
    /\ query = "CastRayCollector"
    /\ ShouldEarlyOut(mCollector)
    /\ Len(mCollector.hits) = 1
    /\ \E i \in 1 .. Len(mCollector.tested) :
           /\ mCollector.tested[i].aborted
           /\ mCollector.tested[i].triangle \in HitTriangles
    /\ Len(visited) < 1 + NumBlocks(mTree)
    /\ NumBlocks(mTree) = 2

(***************************************************************************)
(* Saving a shape and restoring it into a fresh one.                       *)
(***************************************************************************)

\* the material tables of the shapes that are saved
MaterialLists == {<<>>, <<10>>, <<10, 11>>}

\* the user data of the shapes that are saved
UserData == {0, 7}

\* the tree buffer as the sequence of its parts
ByteBufferVector(tree) == <<tree.root, tree.blockIDBits, tree.nodes, tree.leaves>>

\* the tree a buffer holds
TreeOfBuffer(buffer) ==
    IF Len(buffer) = 4
    THEN [nodes |-> buffer[3], leaves |-> buffer[4], root |-> buffer[1],
          blockIDBits |-> buffer[2]]
    ELSE EmptyTree

\* StreamOut::Write of a vector: its length, then its elements
Write(stream, vector) == stream \o <<Len(vector)>> \o vector

\* StreamIn::Read of a vector: the length, then as many elements
Read(stream) ==
    LET len == Head(stream)
    IN  [value |-> SubSeq(stream, 2, len + 1), rest |-> SubSeq(stream, len + 2, Len(stream))]

\* Shape::SaveBinaryState
Shape_SaveBinaryState(stream, userData) == Append(stream, userData)

\* MeshShape::SaveBinaryState: the stream after it
SaveBinaryStateOf(stream, userData, tree) ==
    Write(Shape_SaveBinaryState(stream, userData), ByteBufferVector(tree))

\* RestoreBinaryState reading the state of the base class only
RestoreBinaryState_BaseOnly(shape, stream) ==
    [shape EXCEPT !.mUserData = Head(stream)]

\* MeshShape::RestoreBinaryState: the shape after it
RestoreBinaryStateOf(shape, stream) ==
    [shape EXCEPT !.mUserData = Head(stream),
                  !.mTree = TreeOfBuffer(Read(Tail(stream)).value)]

\* MeshShape::RestoreMaterialState: the shape after it
RestoreMaterialStateOf(shape, inMaterials) ==
    [shape EXCEPT !.mMaterials = inMaterials, !.materialsRestored = TRUE]

\* MeshShape::GetMaterial of a shape whose tree was built with numMaterials
\* materials, for the id of one of its triangles
GetMaterial(tree, materials, numMaterials, id) ==
    IF materials = <<>> THEN sDefault
    ELSE LET d == DecodeSubShapeID(id, sTriangleBlockIDBits(tree))
             flags == sGetFlags(tree.leaves[d.block_id + 1][d.outTriangleIndex + 1],
                                numMaterials)
         IN  materials[(flags % (FLAGS_MATERIAL_MASK + 1)) + 1]

\* the sub-shape ids of the triangles of a tree
ValidSubShapeIDs(tree) ==
    UNION {{TriangleSubShapeID(EmptyCreator, b - 1, sTriangleBlockIDBits(tree), i - 1) :
               i \in 1 .. Len(tree.leaves[b])} : b \in 1 .. Len(tree.leaves)}

SaveInit ==
    /\ IdIdle
    /\ EdgeIdle
    /\ ScaleIdle
    /\ CreateIdle
    /\ ParIdle
    /\ SetIdle
    /\ WalkIdle
    /\ BuiltShape(Trees(MaxLeaves, MaxTriangles), MaterialLists)
    /\ savePc = "built"
    /\ mUserData \in UserData
    /\ inStream = <<>>
    /\ savedMaterials = NoList
    /\ restored = FreshShape

SaveBinaryState ==
    /\ savePc = "built"
    /\ inStream' = SaveBinaryStateOf(inStream, mUserData, mTree)
    /\ savePc' = "saved"
    /\ UNCHANGED <<mUserData, savedMaterials, restored>>
    /\ UNCHANGED <<idVars, edgeVars, scaleVars, createVars, parVars, setVars, buildVars, walkVars>>

SaveMaterialState ==
    /\ savePc \in {"built", "saved", "restored"}
    /\ ~savedMaterials.saved
    /\ savedMaterials' = [saved |-> TRUE, list |-> mMaterials]
    /\ UNCHANGED <<savePc, mUserData, inStream, restored>>
    /\ UNCHANGED <<idVars, edgeVars, scaleVars, createVars, parVars, setVars, buildVars, walkVars>>

RestoreBinaryState ==
    /\ savePc = "saved"
    /\ restored' = RestoreBinaryStateOf(restored, inStream)
    /\ savePc' = "restored"
    /\ UNCHANGED <<mUserData, inStream, savedMaterials>>
    /\ UNCHANGED <<idVars, edgeVars, scaleVars, createVars, parVars, setVars, buildVars, walkVars>>

RestoreMaterialState ==
    /\ savedMaterials.saved
    /\ ~restored.materialsRestored
    /\ restored' = RestoreMaterialStateOf(restored, savedMaterials.list)
    /\ UNCHANGED <<savePc, mUserData, inStream, savedMaterials>>
    /\ UNCHANGED <<idVars, edgeVars, scaleVars, createVars, parVars, setVars, buildVars, walkVars>>

SaveNext == SaveBinaryState \/ SaveMaterialState \/ RestoreBinaryState \/ RestoreMaterialState

SpecSave == SaveInit /\ [][SaveNext]_vars

\* both shapes give the same material for every triangle of the saved shape
SameMaterials ==
    \A id \in ValidSubShapeIDs(mTree) :
        GetMaterial(restored.mTree, restored.mMaterials, Len(mMaterials), id) =
            GetMaterial(mTree, mMaterials, Len(mMaterials), id)

\* C12 as stated: after SaveBinaryState and RestoreBinaryState into a fresh
\* shape the tree is the same and GetMaterial gives the same material for
\* every valid sub-shape id, with or without materials
C12_RestoredAnswersTheSame ==
    savePc = "restored" => restored.mTree = mTree /\ SameMaterials

\* C12 amended: after SaveBinaryState and RestoreBinaryState the tree and
\* the user data are the same; GetMaterial gives the same material for every
\* valid sub-shape id when the shape has no materials or the list of
\* SaveMaterialState went through RestoreMaterialState, and the default
\* material otherwise
C12_RestoredWithMaterialState ==
    savePc = "restored" =>
        /\ restored.mTree = mTree
        /\ restored.mUserData = mUserData
        /\ (mMaterials = <<>> \/ restored.materialsRestored) => SameMaterials
        /\ ~restored.materialsRestored =>
                \A id \in ValidSubShapeIDs(mTree) :
                    GetMaterial(restored.mTree, restored.mMaterials, Len(mMaterials), id)
                        = sDefault

\* a shape of two blocks and two materials restored with its materials
C12_Witness ==
    /\ savePc = "restored"
    /\ Len(mMaterials) = 2
    /\ restored.materialsRestored
    /\ NumBlocks(mTree) = 2
    /\ mUserData # 0

(***************************************************************************)
(* Queries of several callers on one shape, their steps interleaved.       *)
(***************************************************************************)

\* the callers
Threads == {1, 2}

\* the node stack if it were kept with the shape: what the last round of
\* any query left, once there is one
DecodingContext_InShape(q, shared) ==
    IF shared.nodes = <<>> THEN q.stack ELSE shared

\* the node stack a query walks with: the one in the context of its caller
DecodingContext(q, shared) == q.stack

\* WalkTree after a node was visited: the stack and whether the walk goes on
WalkTreeRound(stack, top, abort) ==
    IF abort
    THEN [stack |-> [nodes |-> stack, top |-> top], pc |-> "walked"]
    ELSE LET t == PopNodes([i \in 1 .. Len(stack) |-> TRUE], top)
         IN  [stack |-> [nodes |-> InUse(stack, t + 1), top |-> t],
              pc |-> IF t < 0 THEN "walked" ELSE "walking"]

\* a query as GetTrianglesStart leaves it, with the arguments its caller
\* passes to every GetTrianglesNext
StartedQuery(tree, box, inside_out, request) ==
    [pc |-> "started",
     context |-> [NoContext EXCEPT !.mLocalBox = box, !.mIsInsideOut = inside_out],
     stack |-> [nodes |-> <<tree.root>>, top |-> 0],
     inMaxTrianglesRequested |-> request,
     outTriangleVertices |-> <<>>, outMaterials |-> <<>>,
     results |-> <<>>, emitted |-> <<>>]

\* the queries one step of query q can lead to: the head of
\* GetTrianglesNext, a round of its WalkTree, or its return
Steps(tree, numMaterials, q, shared) ==
    LET st == DecodingContext(q, shared)
    IN  CASE q.pc \in {"started", "returned"} ->
                 IF st.top < 0
                 THEN {[q EXCEPT !.pc = "done", !.results = Append(@, 0),
                                 !.outTriangleVertices = <<>>, !.outMaterials = <<>>]}
                 ELSE {[q EXCEPT !.pc = "walking",
                                 !.outTriangleVertices = <<>>, !.outMaterials = <<>>,
                                 !.context = [@ EXCEPT
                                     !.mMaxTrianglesRequested = q.inMaxTrianglesRequested,
                                     !.mMaterials = TRUE,
                                     !.mShouldAbort = FALSE,
                                     !.mNumTrianglesFound = 0]]}
          [] q.pc = "walking" ->
                 LET node_properties == st.nodes[st.top + 1]
                 IN  IF node_properties.tri_count = 0
                     THEN {LET after == WalkTreeRound(PushNodes(st.nodes, st.top, pushed),
                                            st.top + Len(pushed), q.context.mShouldAbort)
                           IN  [q EXCEPT !.stack = after.stack, !.pc = after.pc] :
                              pushed \in Sort4True(tree.nodes[node_properties.offset],
                                                   q.context.mLocalBox)}
                     ELSE LET visit == GetTriangles_VisitTriangles(q.context,
                                           tree.leaves[node_properties.offset + 1],
                                           q.outTriangleVertices, q.outMaterials,
                                           numMaterials)
                              after == WalkTreeRound(st.nodes, st.top,
                                                     visit.context.mShouldAbort)
                          IN  {[q EXCEPT !.context = visit.context,
                                         !.outTriangleVertices = visit.vertices,
                                         !.outMaterials = visit.materials,
                                         !.emitted = @ \o visit.written,
                                         !.stack = after.stack, !.pc = after.pc]}
          [] q.pc = "walked" ->
                 {[q EXCEPT !.pc = "returned",
                            !.results = Append(@, q.context.mNumTrianglesFound)]}
          [] OTHER -> {}

\* what a query hands back to its caller
Answer(q) ==
    [results |-> q.results, emitted |-> q.emitted,
     outTriangleVertices |-> q.outTriangleVertices, outMaterials |-> q.outMaterials]

\* the answers a query can end with when no other query runs
RECURSIVE AnswersAlone(_, _, _)
AnswersAlone(tree, numMaterials, q) ==
    IF q.pc = "done" THEN {Answer(q)}
    ELSE UNION {AnswersAlone(tree, numMaterials, next) :
                   next \in Steps(tree, numMaterials, q, q.stack)}

ParInit ==
    /\ IdIdle
    /\ EdgeIdle
    /\ ScaleIdle
    /\ CreateIdle
    /\ SaveIdle
    /\ SetIdle
    /\ WalkIdle
    /\ BuiltShape(Trees(MaxLeaves, MaxMeshTriangles), {2})
    /\ threads = [t \in Threads |-> [pc |-> "idle"]]
    /\ started = [t \in Threads |-> [pc |-> "idle"]]
    /\ lastStack = [nodes |-> <<>>, top |-> -1]

\* the caller of a thread starts a query of the shape; the second caller
\* has a scale that turns the shape inside out, the smallest buffer and a
\* box that holds the whole shape
StartQuery(t) ==
    /\ threads[t].pc = "idle"
    /\ \E box \in Boxes(mTree), inside_out \in {t = 2},
          request \in IF t = 2 THEN {cGetTrianglesMinTrianglesRequested}
                      ELSE {2 * cGetTrianglesMinTrianglesRequested} :
           /\ IsBox(mTree, box)
           /\ \A n \in 1 .. Len(mTree.nodes) : box.node[n]
           /\ t = 2 => \A b \in 1 .. NumBlocks(mTree) : box.leaf[b]
           /\ threads' = [threads EXCEPT ![t] = StartedQuery(mTree, box, inside_out, request)]
           /\ started' = [started EXCEPT ![t] = StartedQuery(mTree, box, inside_out, request)]
    /\ UNCHANGED lastStack
    /\ UNCHANGED <<idVars, edgeVars, scaleVars, createVars, saveVars, setVars, buildVars, walkVars>>

\* a thread takes the next step of its query
StepQuery(t) ==
    /\ threads[t].pc \notin {"idle", "done"}
    /\ \E next \in Steps(mTree, mMaterials, threads[t], lastStack) :
           /\ threads' = [threads EXCEPT ![t] = next]
           /\ lastStack' = IF threads[t].pc = "walking" THEN next.stack ELSE lastStack
    /\ UNCHANGED started
    /\ UNCHANGED <<idVars, edgeVars, scaleVars, createVars, saveVars, setVars, buildVars, walkVars>>

ParNext == \E t \in Threads : StartQuery(t) \/ StepQuery(t)

SpecPar == ParInit /\ [][ParNext]_vars

\* C13: no step of a query changes the tree or the material table, and a
\* query that has ended among the steps of other queries hands back one of
\* the answers it can give when run alone
C13_QueriesDoNotInterfere ==
    /\ [][mTree' = mTree /\ mMaterials' = mMaterials]_vars
    /\ [](\A t \in Threads :
             threads[t].pc = "done" =>
                 Answer(threads[t]) \in AnswersAlone(mTree, mMaterials, started[t]))

\* the second query has ended after a call that stopped for lack of room,
\* while the first, which has given other triangles, is in its walk
C13_Witness ==
    /\ threads[2].pc = "done"
    /\ Len(threads[2].results) >= 3
    /\ threads[1].pc = "walking"
    /\ threads[1].emitted # <<>>
    /\ threads[1].emitted # SubSeq(threads[2].emitted, 1, Len(threads[1].emitted))
    /\ lastStack = threads[1].stack

(***************************************************************************)
(* Create called again and again, the settings changed in between.         *)
(***************************************************************************)

\* calls of Create looked at
MaxCreateCalls == 2

\* triangles of the settings: two that differ in their material, and a
\* degenerate one
CreateTriangles ==
    {IndexedTriangle(0, 1, 2, 0), IndexedTriangle(0, 1, 2, 1), IndexedTriangle(0, 0, 1, 0)}

\* the settings Create is called with: vertex count, triangles, material count
CreateSettings ==
    {[vertices |-> v, triangles |-> l, materials |-> m] :
        v \in VertexCounts, l \in SeqsUpTo(CreateTriangles, 2), m \in {0, 1, 2}}

\* Create constructing whenever the cached result holds no shape
ShouldConstruct_UnlessShape(cached) == cached.kind # "shape"

\* MeshShapeSettings::Create, line 100: mCachedResult.IsEmpty()
ShouldConstruct(cached) == cached = EmptyResult

CreateInit ==
    /\ IdIdle
    /\ EdgeIdle
    /\ ScaleIdle
    /\ ParIdle
    /\ SaveIdle
    /\ WalkIdle
    /\ setPc = "constructed"
    /\ inTriangles = <<>>
    /\ \E settings \in CreateSettings :
           /\ sTriangleVertices = settings.vertices
           /\ sIndexedTriangles = settings.triangles
           /\ sMaterials = settings.materials
    /\ mCachedResult = EmptyResult
    /\ buildPc = "idle"
    /\ mMaterials = 0
    /\ indexed_triangles = <<>>
    /\ mTree = EmptyTree
    /\ ran = {}
    /\ assertFailed = FALSE
    /\ ctorRuns = 0
    /\ returned = <<>>

\* MeshShapeSettings::Create up to the constructor, or all of it when
\* there is a cached result
CreateCall ==
    /\ buildPc = "idle"
    /\ Len(returned) < MaxCreateCalls
    /\ IF ShouldConstruct(mCachedResult)
       THEN /\ ctorRuns' = ctorRuns + 1
            /\ buildPc' = "check_empty"
            /\ UNCHANGED returned
       ELSE /\ returned' = Append(returned, mCachedResult)
            /\ UNCHANGED <<ctorRuns, buildPc>>
    /\ UNCHANGED <<mMaterials, indexed_triangles, mTree, ran, assertFailed>>
    /\ UNCHANGED <<setVars, idVars, edgeVars, scaleVars, parVars, saveVars, walkVars>>

\* MeshShapeSettings::Create, line 102, after the constructor
CreateReturn ==
    /\ buildPc = "done"
    /\ returned' = Append(returned, mCachedResult)
    /\ buildPc' = "idle"
    /\ UNCHANGED ctorRuns
    /\ UNCHANGED <<mMaterials, indexed_triangles, mTree, ran, assertFailed>>
    /\ UNCHANGED <<setVars, idVars, edgeVars, scaleVars, parVars, saveVars, walkVars>>

\* the owner of the settings changes their public members between calls
ChangeSettings ==
    /\ buildPc = "idle"
    /\ returned # <<>>
    /\ Len(returned) < MaxCreateCalls
    /\ \E settings \in CreateSettings :
           /\ sTriangleVertices' = settings.vertices
           /\ sIndexedTriangles' = settings.triangles
           /\ sMaterials' = settings.materials
    /\ UNCHANGED <<setPc, inTriangles, mCachedResult>>
    /\ UNCHANGED <<createVars, buildVars, idVars, edgeVars, scaleVars, parVars, saveVars, walkVars>>

CreateNext ==
    \/ CreateCall
    \/ CreateReturn
    \/ ChangeSettings
    \/ CtorCheckEmpty
    \/ CtorCheckTriangles
    \/ CtorMaterials
    \/ CtorFindActiveEdges
    \/ CtorBuildTree
    \/ CtorCheckBits

SpecCreate == CreateInit /\ [][CreateNext]_vars

\* C14: the constructor has run at most once, and every call of Create has
\* returned what the first call returned, a shape or an error
C14_CreateCaches ==
    /\ ctorRuns <= 1
    /\ \A i \in 1 .. Len(returned) :
           /\ returned[i] = returned[1]
           /\ returned[i].kind \in {"shape", "error"}

\* the first call failed for lack of triangles, the settings then got
\* triangles, and a later call has returned
C14_Witness ==
    /\ Len(returned) >= 2
    /\ returned[1] = ErrorResult("Need triangles to create a mesh shape!", <<>>)
    /\ sIndexedTriangles # <<>>
    /\ CheckTriangles(sIndexedTriangles, sTriangleVertices,
                      Len(sIndexedTriangles) - 1) = EmptyResult

(***************************************************************************)
(* The enumeration of triangles under a scale with negative components.    *)
(***************************************************************************)

\* the signs of the components of a scale
Scales == {<<x, y, z>> : x \in {-1, 1}, y \in {-1, 1}, z \in {-1, 1}}

\* ScaleHelpers::IsInsideOut: an odd number of negative components
IsInsideOut(scale) == Cardinality({i \in 1 .. 3 : scale[i] < 0}) % 2 = 1

\* the scale with the sign of every component dropped
AbsScale(scale) == [i \in 1 .. 3 |-> IF scale[i] < 0 THEN -scale[i] ELSE scale[i]]

ScaleInit ==
    /\ IdIdle
    /\ EdgeIdle
    /\ CreateIdle
    /\ ParIdle
    /\ SaveIdle
    /\ SetIdle
    /\ WalkIdle
    /\ BuiltShape(Trees(MaxLeaves, MaxMeshTriangles), {2})
    /\ inScale = <<1, 1, 1>>
    /\ enumeration = [pc |-> "idle"]

\* GetTrianglesStart with a scale; the box stands for the children whose
\* scaled bounds it meets
ScaleStart ==
    /\ enumeration.pc = "idle"
    /\ \E scale \in Scales, box \in Boxes(mTree), request \in TriangleRequests :
           /\ IsBox(mTree, box)
           /\ inScale' = scale
           /\ enumeration' = StartedQuery(mTree, box, IsInsideOut(scale), request)
    /\ UNCHANGED <<idVars, edgeVars, createVars, parVars, saveVars, setVars, buildVars, walkVars>>

\* the next step of the calls of GetTrianglesNext
ScaleStep ==
    /\ enumeration.pc \notin {"idle", "done"}
    /\ \E next \in Steps(mTree, mMaterials, enumeration, enumeration.stack) :
           enumeration' = next
    /\ UNCHANGED inScale
    /\ UNCHANGED <<idVars, edgeVars, createVars, parVars, saveVars, setVars, buildVars, walkVars>>

ScaleNext == ScaleStart \/ ScaleStep

SpecScale == ScaleInit /\ [][ScaleNext]_vars

\* the triangles the call that has just returned wrote
WrittenByCall(q) ==
    SubSeq(q.emitted, Len(q.emitted) - q.results[Len(q.results)] + 1, Len(q.emitted))

\* the corner written at place c of a triangle: v0, v1, v2 or v0, v2, v1
CornerAt(c, flipped) == IF flipped /\ c # 0 THEN 3 - c ELSE c

\* the sequences of triangles the enumeration can emit with a scale
EmittedWith(scale) ==
    {a.emitted : a \in AnswersAlone(mTree, mMaterials,
                       StartedQuery(mTree, enumeration.context.mLocalBox,
                                    IsInsideOut(scale), enumeration.inMaxTrianglesRequested))}

Rotations(idx) == {idx, <<idx[2], idx[3], idx[1]>>, <<idx[3], idx[1], idx[2]>>}

\* two triangles over the same three vertices, wound the opposite way
OppositeWinding(tri1, tri2) ==
    /\ ~IsDegenerate(tri1)
    /\ Range(tri1.mIdx) = Range(tri2.mIdx)
    /\ tri2.mIdx \notin Rotations(tri1.mIdx)

\* C16 as stated: the sanitizer treats two triangles over the same three
\* vertices with opposite winding as duplicates, so no two of them are left
C16_OppositeWindingRemoved ==
    setPc = "constructed" =>
        \A i, j \in 1 .. Len(sIndexedTriangles) :
            ~OppositeWinding(sIndexedTriangles[i], sIndexedTriangles[j])

\* C16 amended: of two input triangles over the same three vertices with
\* opposite winding the sanitizer leaves one of each winding
C16_OppositeWindingKept ==
    setPc = "constructed" =>
        \A i, j \in 1 .. Len(inTriangles) :
            OppositeWinding(inTriangles[i], inTriangles[j]) =>
                \E k, l \in 1 .. Len(sIndexedTriangles) :
                    /\ sIndexedTriangles[k].mIdx \in Rotations(inTriangles[i].mIdx)
                    /\ sIndexedTriangles[l].mIdx \in Rotations(inTriangles[j].mIdx)

\* the input (a, b, c), (a, c, b): both are left
C16_Witness ==
    /\ setPc = "constructed"
    /\ Len(inTriangles) = 2
    /\ OppositeWinding(inTriangles[1], inTriangles[2])
    /\ sIndexedTriangles = inTriangles

\* the places of a list whose triangle is not degenerate and has the
\* lowest-index-first triple of the triangle at place i
Occurrences(list, i) ==
    {j \in 1 .. Len(list) :
        /\ ~IsDegenerate(list[j])
        /\ TriangleKey(GetLowestIndexFirst(list[j])) = TriangleKey(GetLowestIndexFirst(list[i]))}

\* the triangles of a list at the places of keep, in the order of the list
RECURSIVE Kept(_, _, _)
Kept(list, keep, i) ==
    IF i > Len(list) THEN <<>>
    ELSE (IF i \in keep THEN <<list[i]>> ELSE <<>>) \o Kept(list, keep, i + 1)

\* C19 as stated: of the triangles with one lowest-index-first triple the
\* sanitizer leaves the first in input order, and the triangles left keep
\* their relative order
C19_KeepsFirst ==
    setPc = "constructed" =>
        sIndexedTriangles =
            Kept(inTriangles,
                 {i \in 1 .. Len(inTriangles) :
                     /\ ~IsDegenerate(inTriangles[i])
                     /\ \A j \in Occurrences(inTriangles, i) : i <= j}, 1)

\* C19 amended: of the triangles with one lowest-index-first triple the
\* sanitizer leaves the last in input order, and the triangles left keep
\* their relative order
C19_KeepsLast ==
    setPc = "constructed" =>
        sIndexedTriangles =
            Kept(inTriangles,
                 {i \in 1 .. Len(inTriangles) :
                     /\ ~IsDegenerate(inTriangles[i])
                     /\ \A j \in Occurrences(inTriangles, i) : j <= i}, 1)

\* a triangle, another one, and the first one again with its indices
\* rotated: the first is removed and the other two are left in their order
C19_Witness ==
    /\ setPc = "constructed"
    /\ Len(inTriangles) = 3
    /\ Occurrences(inTriangles, 1) = {1, 3}
    /\ inTriangles[1] # inTriangles[3]
    /\ Occurrences(inTriangles, 2) = {2}
    /\ sIndexedTriangles = <<inTriangles[2], inTriangles[3]>>

(***************************************************************************)
(* The messages of the errors of construction.                             *)
(***************************************************************************)

\* the triangles, counted from 0, a message about a triangle can be about
OffendingTriangles(text) ==
    {t \in 0 .. (Len(sIndexedTriangles) - 1) :
        LET triangle == sIndexedTriangles[t + 1]
        IN  CASE text = "Triangle %d is degenerate!" -> IsDegenerate(triangle)
              [] text = "Vertex index %u is beyond vertex list (size: %u)" ->
                     \E i \in 1 .. 3 : triangle.mIdx[i] >= sTriangleVertices
              [] text = "Triangle material %u is beyond material list (size: %u)" ->
                     triangle.mMaterialIndex >= sMaterials
              [] text = "No materials present, all triangles should have material index 0" ->
                     triangle.mMaterialIndex # 0
              [] OTHER -> FALSE}

\* the messages about one triangle
TriangleTexts ==
    {"Triangle %d is degenerate!",
     "Vertex index %u is beyond vertex list (size: %u)",
     "Triangle material %u is beyond material list (size: %u)",
     "No materials present, all triangles should have material index 0"}

\* C17: the message of an error about a triangle carries the index of a
\* triangle it is about, and the too-many-materials message carries the
\* limit of the material table
C17_MessagesCarryIndexAndLimit ==
    (buildPc = "done" /\ mCachedResult.kind = "error") =>
        /\ mCachedResult.text \in TriangleTexts =>
               /\ mCachedResult.args # <<>>
               /\ mCachedResult.args[1] \in OffendingTriangles(mCachedResult.text)
        /\ mCachedResult.text = TooManyMaterialsText =>
               mCachedResult.args[1] \in {FLAGS_MATERIAL_MASK, FLAGS_MATERIAL_MASK + 1}

(***************************************************************************)
(* FindActiveEdges on triangles that share edges.                          *)
(***************************************************************************)

\* triangles in the lists handed to FindActiveEdges
MaxEdgeTriangles == 3

\* triangles over four vertices, four of them at the edge of 0 and 1
EdgeTriangles ==
    {IndexedTriangle(0, 1, 2, 0), IndexedTriangle(1, 0, 3, 1), IndexedTriangle(0, 1, 3, 0),
     IndexedTriangle(0, 2, 1, 1), IndexedTriangle(1, 2, 3, 0)}

\* the active edge bits of a triangle
ActiveEdgeBits(triangle) ==
    {k \in 0 .. 2 : BitOf(triangle.mMaterialIndex, FLAGS_ACTIVE_EGDE_SHIFT + k) = 1}

EdgeInit ==
    /\ IdIdle
    /\ ScaleIdle
    /\ CreateIdle
    /\ ParIdle
    /\ SaveIdle
    /\ WalkIdle
    /\ setPc = "constructed"
    /\ inTriangles \in SeqsUpTo(EdgeTriangles, MaxEdgeTriangles)
    /\ sTriangleVertices = 4
    /\ sIndexedTriangles = Sanitize(inTriangles)
    /\ sMaterials = 2
    /\ mCachedResult = EmptyResult
    /\ buildPc = "active_edges"
    /\ mMaterials = sMaterials
    /\ indexed_triangles = <<>>
    /\ mTree = EmptyTree
    /\ ran = {"materials"}
    /\ assertFailed = FALSE
    /\ inSharp \in SUBSET SharedEdges(sIndexedTriangles)
    /\ edgeOrder = <<>>

\* MeshShape::FindActiveEdges on the sanitized triangles, the edge map
\* iterated in one of its orders
FindActiveEdgesCall ==
    /\ buildPc = "active_edges"
    /\ \E order \in EdgeOrders(EdgesOf(sIndexedTriangles)) :
          LET r == FindActiveEdges(sIndexedTriangles, order, inSharp)
          IN  /\ indexed_triangles' = r.tris
              /\ assertFailed' = r.failed
              /\ edgeOrder' = order
    /\ ran' = ran \cup {"FindActiveEdges"}
    /\ buildPc' = "build"
    /\ UNCHANGED <<inSharp, mMaterials, mTree>>
    /\ UNCHANGED <<setVars, idVars, scaleVars, createVars, parVars, saveVars, walkVars>>

EdgeNext == FindActiveEdgesCall

SpecEdges == EdgeInit /\ [][EdgeNext]_vars

\* C18: after FindActiveEdges the bit of edge position k of a triangle is
\* set iff the edge at that position has one triangle, or three or more, or
\* two for which IsEdgeActive holds; the triangles of one edge agree on its
\* bit, and the flags are those of any other order of the edge map
C18_BitsFollowActiveEdges ==
    "FindActiveEdges" \in ran =>
        /\ Len(indexed_triangles) = Len(sIndexedTriangles)
        /\ \A t \in 1 .. Len(sIndexedTriangles), k \in 0 .. 2 :
               LET edge == TriangleEdge(sIndexedTriangles[t], k)
                   n == Cardinality({u \in 1 .. Len(sIndexedTriangles) :
                            \E j \in 0 .. 2 : TriangleEdge(sIndexedTriangles[u], j) = edge})
               IN  k \in ActiveEdgeBits(indexed_triangles[t]) <=>
                       (n = 1 \/ n >= 3 \/ (n = 2 /\ edge \in inSharp))
        /\ \A t, u \in 1 .. Len(sIndexedTriangles), k, j \in 0 .. 2 :
               TriangleEdge(sIndexedTriangles[t], k) = TriangleEdge(sIndexedTriangles[u], j) =>
                   (k \in ActiveEdgeBits(indexed_triangles[t]) <=>
                    j \in ActiveEdgeBits(indexed_triangles[u]))
        /\ \A order \in EdgeOrders(EdgesOf(sIndexedTriangles)) :
               indexed_triangles = FindActiveEdges(sIndexedTriangles, order, inSharp).tris

\* three triangles at the edge of 0 and 1, the edge map iterated from its
\* last edge: the bit of that edge is set in all three
C18_Witness ==
    /\ "FindActiveEdges" \in ran
    /\ Len(sIndexedTriangles) = 3
    /\ \A t \in 1 .. 3 : \E k \in 0 .. 2 :
           /\ TriangleEdge(sIndexedTriangles[t], k) = Edge(0, 1)
           /\ k \in ActiveEdgeBits(indexed_triangles[t])
    /\ \E t \in 1 .. 3 : ActiveEdgeBits(indexed_triangles[t]) # {0, 1, 2}
    /\ edgeOrder # Ascending(EdgesOf(sIndexedTriangles))

(***************************************************************************)
(* The flags of the triangles of a shape.                                  *)
(***************************************************************************)

\* C20: once FindActiveEdges has run in the construction of a shape, the
\* material bits of every triangle are its material index in the settings,
\* below the number of materials or 0 without materials, no bit above the
\* three active edge bits is set, and the assertion that an active edge bit
\* is clear before it is set has not failed; the tree of a shape holds
\* these triangles
C20_FlagsKeepMaterial ==
    "FindActiveEdges" \in ran =>
        /\ ~assertFailed
        /\ Len(indexed_triangles) = Len(sIndexedTriangles)
        /\ \A t \in 1 .. Len(indexed_triangles) :
               LET flags == indexed_triangles[t].mMaterialIndex
               IN  /\ flags % (FLAGS_MATERIAL_MASK + 1) = sIndexedTriangles[t].mMaterialIndex
                   /\ flags % (FLAGS_MATERIAL_MASK + 1) < (IF sMaterials > 1 THEN sMaterials ELSE 1)
                   /\ flags < Pow2(FLAGS_ACTIVE_EGDE_SHIFT + 3)
        /\ mCachedResult.kind = "shape" =>
               /\ mTree.leaves = <<indexed_triangles>>
               /\ sMaterials <= FLAGS_MATERIAL_MASK + 1

\* a shape of two triangles with two materials: the second triangle has
\* material 1 and an active edge, and the triangles share an edge
C20_Witness ==
    /\ buildPc = "done"
    /\ mCachedResult.kind = "shape"
    /\ sMaterials = 2
    /\ Len(indexed_triangles) = 2
    /\ sIndexedTriangles[2].mMaterialIndex = 1
    /\ indexed_triangles[2].mMaterialIndex > FLAGS_MATERIAL_MASK
    /\ SharedEdges(sIndexedTriangles) # {}

====
